---- MODULE Spec2Model ----
(***************************************************************************)
(* A model of the ZOXAA companion application:                             *)
(*   - the chat and text-to-speech relay handlers (serverless / Express),  *)
(*   - the plan tracker hook (useZoxaaPlans),                              *)
(*   - the keyword fallback of the memory hook (useZoxaaMemory),           *)
(*   - the real-time voice hook (useRealTimeVoice).                        *)
(* JavaScript strings are modelled as sequences of one-character strings,  *)
(* so that includes / split / toLowerCase are computed, not assumed.       *)
(***************************************************************************)
EXTENDS Integers, Sequences, FiniteSets, TLC

VARIABLES
    \* ---- relay handlers ----
    keyConfigured,   \* process.env.OPENAI_API_KEY is set
    rpc,             \* position of the handler: "idle", "upstream", "done"
    req,             \* the request being handled, as it arrived
    bodyMessages,    \* req.body.messages as the handler has left it
    responses,       \* responses the handler has sent for this request
    upstreamCalls,   \* calls made to the OpenAI client for this request
    upstreamSpeed,   \* the speed of the speech request made for this request
    escaped,         \* an exception left the handler (or the module failed to load)
    upstreamResult,  \* what the upstream call of this request did
    \* ---- plan tracker hook ----
    plans,           \* useState<ZoxaaPlan[]>: the plans, newest first
    \* ---- memory hook ----
    memories,        \* useState<ZoxaaMemory[]>: the stored memories, oldest first
    memoriesHeld,    \* memories of the render the getRelevantMemories the caller holds is of
    recalls,         \* getRelevantMemories calls suspended at await generateEmbedding
    recalled,        \* the getRelevantMemories call that returned last and its result
    memoriesMade,    \* memories created so far: each gets an id of its own
    \* ---- voice hook: recognition ----
    isListening,         \* useState(false), every update applied
    permissionGranted,   \* useState(false), every update applied
    voiceSupported,      \* useState(false), set by the support check on mount
    rendered,            \* isListening, voiceSupported, permissionGranted of the last render
    currentTranscript,   \* useState(''): "" or "heard"
    recognition,         \* recognitionRef.current: the instance the ref holds
    detached,            \* started instances the ref no longer holds
    restartCount,        \* restartCountRef.current
    isRestarting,        \* isRestartingRef.current
    recentlyRestarted,   \* Date.now() - lastRestartTimeRef.current < 3000
    timers,              \* pending setTimeout callbacks of the handlers
    startCalls,          \* startRealTimeListening calls suspended at an await
    permissionRequests,  \* requestMicrophonePermission calls of the page suspended at getUserMedia
    restarts,            \* restarts the handlers have scheduled since the last fresh start or stop
    \* ---- voice hook: playback ----
    isSpeaking,          \* useState(false)
    currentAudio,        \* currentAudioRef.current
    detachedAudio,       \* Audio elements the ref no longer holds
    speakCalls,          \* speakWithEmotion calls suspended at await fetch
    playCalls,           \* speakWithEmotion calls suspended at await audio.play()
    speech,              \* the last TTS response speakWithEmotion decoded
    stopped,             \* stopSpeaking was called and speakWithEmotion not since
    \* ---- chat hook ----
    chatUser,            \* useState<User | null>: a user is signed in
    chatMessages,        \* useState<Message[]>: the conversation, every update applied
    chatHeld,            \* user and messages of the render the sendMessage the caller holds is of
    isThinking,          \* useState(false)
    chatCalls,           \* sendMessage calls suspended at an await, with their requests
    supabase,            \* rows sendMessage has inserted into the tables of the project
    chatReturned,        \* how the sendMessage call the last step ended has ended
    \* ---- memory hook: conversation records ----
    conversations,       \* useState<ZoxaaConversation[]>
    conversationsHeld,   \* conversations of the render the saveConversation the caller holds is of
    saveCalls,           \* saveConversation calls suspended at their await
    saveReturned,        \* the id the saveConversation call that ended last returned, 0 for none
    dateNow,             \* Date.now(), in saveConversation calls ended
    \* ---- voice call page ----
    callActive,          \* useState(false)
    callTimer,           \* the interval of callTimerRef is running
    callStages,          \* startCall calls suspended at an await: "listening", "welcome"
    callReport,          \* the last toast of startCall and endCall: "none", "started", "failed", "ended"
    isProcessing,        \* useState(false)
    pageTranscript,      \* currentTranscript as the hook gives it to the page
    autoSendTimer,       \* the timeout of the auto-send effect is pending
    voiceInputs,         \* handleVoiceInput calls suspended at an await
    submissions          \* sendMessage calls made with the transcript the page holds

relayVars ==
    <<keyConfigured, rpc, req, bodyMessages, responses, upstreamCalls, upstreamSpeed, escaped,
      upstreamResult>>

planVars == <<plans>>

memoryVars == <<memories, memoriesHeld, recalls, recalled, memoriesMade>>

recognitionVars ==
    <<isListening, permissionGranted, voiceSupported, rendered, currentTranscript, recognition,
      detached, restartCount, isRestarting, recentlyRestarted, timers, startCalls,
      permissionRequests, restarts>>

playbackVars == <<isSpeaking, currentAudio, detachedAudio, speakCalls, playCalls, speech, stopped>>

chatVars == <<chatUser, chatMessages, chatHeld, isThinking, chatCalls, supabase, chatReturned>>

conversationVars == <<conversations, conversationsHeld, saveCalls, saveReturned, dateNow>>

pageVars ==
    <<callActive, callTimer, callStages, callReport, isProcessing, pageTranscript, autoSendTimer,
      voiceInputs, submissions>>

vars ==
    <<relayVars, planVars, memoryVars, recognitionVars, playbackVars, chatVars, conversationVars,
      pageVars>>

\* what the actions of one component leave alone
exceptRelay ==
    <<planVars, memoryVars, recognitionVars, playbackVars, chatVars, conversationVars,
      pageVars>>

exceptPlans ==
    <<relayVars, memoryVars, recognitionVars, playbackVars, chatVars, conversationVars,
      pageVars>>

exceptMemory ==
    <<relayVars, planVars, recognitionVars, playbackVars, chatVars, conversationVars,
      pageVars>>

exceptRecognition ==
    <<relayVars, planVars, memoryVars, playbackVars, chatVars, conversationVars,
      pageVars>>

exceptPlayback ==
    <<relayVars, planVars, memoryVars, recognitionVars, chatVars, conversationVars,
      pageVars>>

exceptPage ==
    <<relayVars, planVars, memoryVars, recognitionVars, playbackVars, chatVars, conversationVars>>

exceptChat ==
    <<relayVars, planVars, memoryVars, recognitionVars, playbackVars, conversationVars,
      pageVars>>

(***************************************************************************)
(* JavaScript strings and values                                           *)
(***************************************************************************)

\* s.includes(p) for strings as character sequences
Includes(s, p) ==
    \E i \in 0..(Len(s) - Len(p)) : SubSeq(s, i + 1, i + Len(p)) = p

\* all sequences over S of length at most n
SeqsUpTo(S, n) ==
    UNION {[1..k -> S] : k \in 0..n}

\* a JavaScript value: t is its typeof-like tag, v its content as a sequence
JsUndefined == [t |-> "undefined", v |-> <<>>]

JsNull == [t |-> "null", v |-> <<>>]

JsString(s) == [t |-> "string", v |-> s]

JsNumber(d) == [t |-> "number", v |-> <<d>>]

JsObject == [t |-> "object", v |-> <<>>]

JsArray(items) == [t |-> "array", v |-> items]

\* ToBoolean(x), as used by !x and by x ? a : b
Truthy(x) ==
    CASE x.t = "undefined" -> FALSE
      [] x.t = "null" -> FALSE
      [] x.t = "string" -> Len(x.v) > 0
      [] x.t = "number" -> x.v # <<"0">>
      [] OTHER -> TRUE

\* Array.isArray(x)
IsArray(x) == x.t = "array"

\* whether [...x] succeeds: arrays and strings are iterable
Spreadable(x) == x.t \in {"array", "string"}

(***************************************************************************)
(* JavaScript numbers: IEEE-754 double arithmetic on positive values.      *)
(* A double is [m, e]: m its 53-bit significand as a sequence of bits,     *)
(* most significant first, and e the exponent of its last bit, so that the *)
(* value is m * 2^e.                                                       *)
(***************************************************************************)

\* bits of the significand of a double
MantissaBits == 53

RECURSIVE BitsToInt(_)
\* the number a short bit sequence denotes
BitsToInt(bits) ==
    IF bits = <<>> THEN 0
    ELSE 2 * BitsToInt(SubSeq(bits, 1, Len(bits) - 1)) + bits[Len(bits)]

Zeros(k) == [i \in 1..k |-> 0]

RECURSIVE Pow2(_)
Pow2(k) == IF k = 0 THEN 1 ELSE 2 * Pow2(k - 1)

\* the largest element of a non-empty set of integers
Max(S) == CHOOSE x \in S : \A y \in S : y <= x

\* bits + 1
Increment(bits) ==
    LET zeroAt == {i \in 1..Len(bits) : bits[i] = 0}
    IN IF zeroAt = {} THEN <<1>> \o Zeros(Len(bits))
       ELSE [i \in 1..Len(bits) |->
                IF i < Max(zeroAt) THEN bits[i] ELSE IF i = Max(zeroAt) THEN 1 ELSE 0]

\* the k-bit sequence denoting v
IntToBits(v, k) == [i \in 1..k |-> (v \div Pow2(k - i)) % 2]

\* the bit sequence without its leading zeros
Normalized(bits) ==
    LET setAt == {i \in 1..Len(bits) : bits[i] = 1}
    IN IF setAt = {} THEN <<>>
       ELSE SubSeq(bits, CHOOSE i \in setAt : \A j \in setAt : i <= j, Len(bits))

RECURSIVE MulLimbs(_, _, _)
\* limbs * k + carry, for a sequence of 10-bit limbs, as a bit sequence
MulLimbs(limbs, k, carry) ==
    IF limbs = <<>> THEN IntToBits(carry, 10)
    ELSE LET v == limbs[Len(limbs)] * k + carry
         IN MulLimbs(SubSeq(limbs, 1, Len(limbs) - 1), k, v \div 1024) \o IntToBits(v % 1024, 10)

\* bits * k, for a small factor k
MulSmall(bits, k) ==
    LET n == (Len(bits) + 9) \div 10
        padded == Zeros(10 * n - Len(bits)) \o bits
        limbs == [j \in 1..n |-> BitsToInt(SubSeq(padded, 10 * (j - 1) + 1, 10 * j))]
    IN Normalized(MulLimbs(limbs, k, 0))

\* whether some bit of the sequence is set
AnySet(bits) == \E i \in 1..Len(bits) : bits[i] = 1

\* the double nearest to bits * 2^e (ties to even), for a bit sequence that
\* starts with 1 and has at least 53 bits; sticky says that the exact value
\* lies strictly above bits
RoundToDouble(bits, e, sticky) ==
    LET head == SubSeq(bits, 1, MantissaBits)
        tail == SubSeq(bits, MantissaBits + 1, Len(bits))
        dropped == Len(bits) - MantissaBits
        up == /\ tail # <<>>
              /\ tail[1] = 1
              /\ (AnySet(Tail(tail)) \/ sticky \/ head[MantissaBits] = 1)
        m == IF up THEN Increment(head) ELSE head
    IN IF Len(m) > MantissaBits
       THEN [m |-> SubSeq(m, 1, MantissaBits), e |-> e + dropped + 1]
       ELSE [m |-> m, e |-> e + dropped]

RECURSIVE LeadingZeros(_, _)
\* zero bits of r / n (0 < r < n) after the binary point, before its first 1
LeadingZeros(r, n) == IF 2 * r >= n THEN 0 ELSE 1 + LeadingZeros(2 * r, n)

RECURSIVE Pow2Mod(_, _)
\* 2^k modulo n
Pow2Mod(k, n) == IF k = 0 THEN 1 % n ELSE (2 * Pow2Mod(k - 1, n)) % n

\* what is left of r / n (0 <= r < n) after k bits of its binary expansion
Remainder(r, n, k) == (r * Pow2Mod(k, n)) % n

\* the first k bits of the binary expansion of r / n
Expansion(r, n, k) ==
    [i \in 1..k |-> IF 2 * Remainder(r, n, i - 1) >= n THEN 1 ELSE 0]

\* the double c / n, for 0 < c <= n
Divide(c, n) ==
    IF c = n THEN [m |-> <<1>> \o Zeros(MantissaBits - 1), e |-> 1 - MantissaBits]
    ELSE LET z == LeadingZeros(c, n)
             r == c * Pow2(z)
         IN RoundToDouble(Expansion(r, n, MantissaBits + 1),
                          0 - (z + MantissaBits + 1),
                          Remainder(r, n, MantissaBits + 1) > 0)

\* the double d * 100
TimesHundred(d) == RoundToDouble(MulSmall(d.m, 100), d.e, FALSE)

\* Math.round(d): the integer nearest to d, ties upwards
MathRound(d) ==
    LET whole == MantissaBits + d.e
    IN IF whole < 0 THEN 0
       ELSE BitsToInt(SubSeq(d.m, 1, whole)) + d.m[whole + 1]

(***************************************************************************)
(* Relay handlers: requests, thrown values, responses                      *)
(***************************************************************************)

\* longest text the hardened TTS handler accepts
MaxTextLength == 4000

\* bound: longest free-text tail of an upstream error message
MaxTail == 3

\* bound: longest messages array of a chat request
MaxMsgs == 2

\* characters an upstream error message is made of after its status prefix
ErrChars == {"4", "0", "1", "2", "9"}

\* the status the upstream answered with; <<>> is a failure without a status
\* (connection error, timeout)
UpstreamStatuses == {<<"4", "0", "1">>, <<"4", "2", "9">>, <<"4", "0", "0">>, <<"5", "0", "0">>, <<>>}

\* the message the OpenAI client gives an API error: "<status> <text>"
ApiErrorMessage(status, tail) ==
    IF status = <<>> THEN tail ELSE status \o <<" ">> \o tail

\* the message of the TypeError the runtime raises (destructuring an absent
\* body, spreading a non-iterable, reading a property of undefined)
TypeErrorMessage == <<"T", "y", "p", "e", "E", "r", "r", "o", "r">>

\* a thrown value: an Error carrying a message, a value without a message
\* property (a thrown string or plain object), or null / undefined
ThrownError(status, msg) == [t |-> "Error", status |-> status, message |-> msg]

ThrownNoMessage == [t |-> "noMessage", status |-> <<>>, message |-> <<>>]

ThrownNullish == [t |-> "nullish", status |-> <<>>, message |-> <<>>]

ThrownTypeError == ThrownError(<<>>, TypeErrorMessage)

\* what the upstream call can throw
UpstreamThrows ==
    {ThrownError(st, ApiErrorMessage(st, tail)) : st \in UpstreamStatuses, tail \in SeqsUpTo(ErrChars, MaxTail)}
        \cup {ThrownNoMessage, ThrownNullish}

\* a number of a JSON body, in hundredths: finite (inf = 0), or the
\* Infinity (inf = 1) or -Infinity (inf = -1) that JSON.parse makes of a
\* literal beyond the doubles
Hundredths(h) == [t |-> "number", inf |-> 0, n |-> h]

PlusInfinity == [t |-> "number", inf |-> 1, n |-> 0]

MinusInfinity == [t |-> "number", inf |-> 0 - 1, n |-> 0]

\* no speed field in the body
NoSpeed == [t |-> "undefined", inf |-> 0, n |-> 0]

\* the lowest and highest speed the speech endpoint takes, in hundredths
MinSpeed == 25

MaxSpeed == 400

SpeedValues ==
    {NoSpeed, MinusInfinity, PlusInfinity}
        \cup {Hundredths(h) : h \in {0 - 100, 0, MinSpeed - 1, MinSpeed, MinSpeed + 1, 100, 150,
                                      MaxSpeed - 1, MaxSpeed, MaxSpeed + 1}}

\* x < y for two numbers
NumberLess(x, y) == x.inf < y.inf \/ (x.inf = 0 /\ y.inf = 0 /\ x.n < y.n)

MathMax(x, y) == IF NumberLess(x, y) THEN y ELSE x

MathMin(x, y) == IF NumberLess(y, x) THEN y ELSE x

\* const { ..., speed = 1.0 } = req.body
SpeedOrDefault(speed) == IF speed.t = "undefined" THEN Hundredths(100) ELSE speed

\* a clamp with the two bounds taken the wrong way round
ClampedSpeedWrongWay(speed) ==
    MathMax(MathMin(speed, Hundredths(MinSpeed)), Hundredths(MaxSpeed))

\* Math.min(Math.max(speed, 0.25), 4.0)
ClampedSpeed(speed) ==
    MathMin(MathMax(speed, Hundredths(MinSpeed)), Hundredths(MaxSpeed))

\* outcomes of one synchronous stretch of a handler
Respond(status, error, details) ==
    [k |-> "respond", status |-> status, error |-> error, details |-> details, payload |-> <<>>,
     speed |-> NoSpeed]

CallUpstream(payload, speed) ==
    [k |-> "call", status |-> 0, error |-> "", details |-> <<>>, payload |-> payload, speed |-> speed]

Escape ==
    [k |-> "escape", status |-> 0, error |-> "", details |-> <<>>, payload |-> <<>>,
     speed |-> NoSpeed]

\* request bodies
MessageValues ==
    {JsUndefined, JsNull, JsObject, JsString(<<>>), JsString(<<"h", "i">>), JsNumber("0"), JsNumber("7")}
        \cup {JsArray(items) : items \in SeqsUpTo({"m1", "m2"}, MaxMsgs)}

SystemPromptValues == {JsUndefined, JsString(<<>>), JsString(<<"s", "y", "s">>)}

\* text of a TTS request: n is the string's length (the number's value)
TextLengths == {0, 1, MaxTextLength - 1, MaxTextLength, MaxTextLength + 1}

TextValues ==
    {[t |-> "undefined", n |-> 0], [t |-> "null", n |-> 0], [t |-> "object", n |-> 0],
     [t |-> "number", n |-> 0], [t |-> "number", n |-> 5]}
        \cup {[t |-> "string", n |-> n] : n \in TextLengths}

NoText == [t |-> "undefined", n |-> 0]

\* !text
TextFalsy(x) ==
    \/ x.t \in {"undefined", "null"}
    \/ x.t \in {"string", "number"} /\ x.n = 0

ChatVariants == {"chatHardened", "chatPlain", "chatExpress"}

Variants == ChatVariants \cup {"ttsHardened"}

Methods == {"POST", "GET", "OPTIONS"}

ChatRequests ==
    [variant : ChatVariants, method : Methods, hasBody : BOOLEAN,
     messages : MessageValues, systemPrompt : SystemPromptValues, text : {NoText},
     speed : {NoSpeed}]

\* a speed is tried with a text the handler accepts
TtsRequests ==
    {r \in [variant : {"ttsHardened"}, method : Methods, hasBody : BOOLEAN,
            messages : {JsUndefined}, systemPrompt : {JsUndefined}, text : TextValues,
            speed : SpeedValues] :
        r.speed # NoSpeed => r.text = [t |-> "string", n |-> 1]}

\* a request without a body carries no fields
WellFormed(r) ==
    r.hasBody \/ (/\ r.messages = JsUndefined /\ r.systemPrompt = JsUndefined
                  /\ r.text = NoText /\ r.speed = NoSpeed)

Requests == {r \in ChatRequests \cup TtsRequests : WellFormed(r)}

NoRequest ==
    [variant |-> "none", method |-> "POST", hasBody |-> FALSE,
     messages |-> JsUndefined, systemPrompt |-> JsUndefined, text |-> NoText, speed |-> NoSpeed]

\* the system message behind the request's messages instead of in front
AllMessagesSystemLast(r) ==
    IF Truthy(r.systemPrompt) THEN r.messages.v \o <<"system">> ELSE r.messages.v

\* const allMessages = systemPrompt ? [{role:'system',...}, ...messages] : messages
AllMessages(r) ==
    IF Truthy(r.systemPrompt) THEN <<"system">> \o r.messages.v ELSE r.messages.v

\* a handler that puts the system message into the request's own array:
\* messages.unshift({role: 'system', ...})
MessagesAfterUnshift(r) ==
    IF Truthy(r.systemPrompt) /\ IsArray(r.messages)
    THEN JsArray(<<"system">> \o r.messages.v)
    ELSE r.messages

\* req.body.messages after the handler has run: the handlers read the array
\* and spread it into a new one, they never write to it
MessagesAfter(r) == r.messages

\* the catch block of the hardened chat handler
ChatHardenedCatch(err) ==
    IF err.t # "Error" THEN Escape
    ELSE IF Includes(err.message, <<"4", "0", "1">>) THEN Respond(401, "Invalid API key", <<>>)
    ELSE IF Includes(err.message, <<"4", "2", "9">>) THEN Respond(429, "Rate limit exceeded", <<>>)
    ELSE Respond(500, "Failed to generate response", err.message)

\* the catch block of the plain handlers: details: error.message
PlainCatch(err) ==
    IF err.t = "nullish" THEN Escape
    ELSE Respond(500, "Failed to generate response", err.message)

\* the catch block of the hardened TTS handler
TtsHardenedCatch(err) ==
    IF err.t # "Error" THEN Escape
    ELSE IF Includes(err.message, <<"4", "0", "1">>) THEN Respond(401, "Invalid API key", <<>>)
    ELSE IF Includes(err.message, <<"4", "2", "9">>) THEN Respond(429, "Rate limit exceeded", <<>>)
    ELSE IF Includes(err.message, <<"4", "0", "0">>) THEN Respond(400, "Invalid request", <<>>)
    ELSE Respond(500, "Failed to generate speech", err.message)

Catch(variant, err) ==
    CASE variant = "chatHardened" -> ChatHardenedCatch(err)
      [] variant = "ttsHardened" -> TtsHardenedCatch(err)
      [] OTHER -> PlainCatch(err)

\* if (!messages || !Array.isArray(messages)) return res.status(400)...
MessagesRejected(m) == ~Truthy(m) \/ ~IsArray(m)

\* the hardened chat handler up to its first await
ChatHardenedSync(key, r) ==
    IF r.method = "OPTIONS" THEN Respond(200, "", <<>>)
    ELSE IF ~key THEN Respond(500, "OpenAI API key not configured", <<>>)
    ELSE IF ~r.hasBody THEN ChatHardenedCatch(ThrownTypeError)
    ELSE IF MessagesRejected(r.messages) THEN Respond(400, "Invalid request format", <<>>)
    ELSE CallUpstream(AllMessages(r), NoSpeed)

\* the body of the plain chat handlers (api/chat.js, server/index.js): no
\* validation of messages
PlainChatBody(r) ==
    IF ~r.hasBody THEN PlainCatch(ThrownTypeError)
    ELSE IF Truthy(r.systemPrompt) /\ ~Spreadable(r.messages) THEN PlainCatch(ThrownTypeError)
    ELSE CallUpstream(AllMessages(r), NoSpeed)

\* api/chat.js up to its first await
ChatPlainSync(r) ==
    IF r.method # "POST" THEN Respond(405, "Method not allowed", <<>>)
    ELSE PlainChatBody(r)

\* if (!text || typeof text !== 'string') return res.status(400)...
TextRejected(x) == TextFalsy(x) \/ x.t # "string"

\* if (text.length > 4000) return res.status(400)...
TextTooLong(x) == x.n > MaxTextLength

\* the hardened TTS handler up to its first await
TtsHardenedSync(key, r) ==
    IF r.method = "OPTIONS" THEN Respond(200, "", <<>>)
    ELSE IF ~key THEN Respond(500, "OpenAI API key not configured", <<>>)
    ELSE IF ~r.hasBody THEN TtsHardenedCatch(ThrownTypeError)
    ELSE IF TextRejected(r.text) THEN Respond(400, "Invalid request format", <<>>)
    ELSE IF TextTooLong(r.text) THEN Respond(400, "Text too long", <<>>)
    ELSE CallUpstream(<<"text">>, ClampedSpeed(SpeedOrDefault(r.speed)))

\* what express.json() leaves as req.body of a request that has no body: an
\* empty object (Express 4) or undefined (Express 5); the repository does
\* not say which Express the server runs on
BodyParsers == {"emptyObject", "undefined"}

\* the Express route up to its first await: const { messages, systemPrompt }
\* = req.body raises a TypeError when req.body is undefined
ChatExpressSync(parser, r) ==
    IF parser = "emptyObject" THEN PlainChatBody([r EXCEPT !.hasBody = TRUE])
    ELSE PlainChatBody(r)

Sync(key, parser, r) ==
    CASE r.variant = "chatHardened" -> ChatHardenedSync(key, r)
      [] r.variant = "ttsHardened" -> TtsHardenedSync(key, r)
      [] r.variant = "chatPlain" -> ChatPlainSync(r)
      [] OTHER -> ChatExpressSync(parser, r)

\* what the upstream call did: nothing yet, a well-formed result, a result the
\* handler cannot read (no choices), or a thrown value
NoResult == [k |-> "none", err |-> ThrownNullish]

OkResult == [k |-> "ok", err |-> ThrownNullish]

MalformedResult == [k |-> "malformed", err |-> ThrownNullish]

ThrowResult(err) == [k |-> "throw", err |-> err]

\* the relay handlers with no request in hand
RelayIdle ==
    /\ rpc = "idle"
    /\ req = NoRequest
    /\ bodyMessages = JsUndefined
    /\ responses = <<>>
    /\ upstreamCalls = <<>>
    /\ upstreamSpeed = NoSpeed
    /\ escaped = FALSE
    /\ upstreamResult = NoResult

RelayInit ==
    /\ keyConfigured \in BOOLEAN
    /\ RelayIdle

\* the effect of one synchronous stretch of the handler on the request's state
Apply(o) ==
    /\ responses' = IF o.k = "respond" THEN Append(responses, o) ELSE responses
    /\ upstreamCalls' = IF o.k = "call" THEN Append(upstreamCalls, o.payload) ELSE upstreamCalls
    /\ upstreamSpeed' = IF o.k = "call" THEN o.speed ELSE upstreamSpeed
    /\ escaped' = (escaped \/ o.k = "escape")
    /\ rpc' = IF o.k = "call" THEN "upstream" ELSE "done"

\* which requests reach which handler: the Express route is app.post, and the
\* Express server exits at startup when the key is missing
Reaches(r) ==
    r.variant = "chatExpress" => (r.method = "POST" /\ keyConfigured)

\* a request arrives and the handler runs to its first await or to its end
Receive ==
    /\ rpc = "idle"
    /\ \E r \in Requests, parser \in BodyParsers :
        /\ Reaches(r)
        /\ req' = r
        /\ bodyMessages' = MessagesAfter(r)
        /\ Apply(Sync(keyConfigured, parser, r))
    /\ UNCHANGED <<keyConfigured, upstreamResult, exceptRelay>>

\* api/chat.js builds its client at module load; without a key the client
\* library may refuse to be constructed, and the function then fails before the
\* handler runs
ReceiveLoadFailure ==
    /\ rpc = "idle"
    /\ ~keyConfigured
    /\ \E r \in Requests :
        /\ r.variant = "chatPlain"
        /\ req' = r
        /\ bodyMessages' = r.messages
        /\ Apply(Escape)
    /\ UNCHANGED <<keyConfigured, upstreamResult, exceptRelay>>

\* the awaited upstream call resolves and the handler sends its result
UpstreamSucceeds ==
    /\ rpc = "upstream"
    /\ upstreamResult' = OkResult
    /\ Apply(Respond(200, "", <<>>))
    /\ UNCHANGED <<keyConfigured, req, bodyMessages, exceptRelay>>

\* the upstream call resolves with a result the handler cannot read:
\* completion.choices[0].message raises a TypeError inside the try block
UpstreamMalformed ==
    /\ rpc = "upstream"
    /\ upstreamResult' = MalformedResult
    /\ Apply(Catch(req.variant, ThrownTypeError))
    /\ UNCHANGED <<keyConfigured, req, bodyMessages, exceptRelay>>

\* the awaited upstream call rejects with err and the catch block runs
UpstreamFails ==
    /\ rpc = "upstream"
    /\ \E err \in UpstreamThrows :
        /\ upstreamResult' = ThrowResult(err)
        /\ Apply(Catch(req.variant, err))
    /\ UNCHANGED <<keyConfigured, req, bodyMessages, exceptRelay>>

\* the next request is taken up
NextRequest ==
    /\ rpc = "done"
    /\ rpc' = "idle"
    /\ req' = NoRequest
    /\ bodyMessages' = JsUndefined
    /\ responses' = <<>>
    /\ upstreamCalls' = <<>>
    /\ upstreamSpeed' = NoSpeed
    /\ escaped' = FALSE
    /\ upstreamResult' = NoResult
    /\ UNCHANGED <<keyConfigured, exceptRelay>>

RelayNext ==
    \/ Receive
    \/ ReceiveLoadFailure
    \/ UpstreamSucceeds
    \/ UpstreamMalformed
    \/ UpstreamFails
    \/ NextRequest

(***************************************************************************)
(* Relay handlers: properties                                              *)
(***************************************************************************)

\* the request has been answered with exactly one response of this status
AnsweredWith(status) ==
    Len(responses) = 1 /\ responses[1].status = status

\* C5: the chat relay answers 400 to every POST /api/chat request (credential
\* configured) whose messages field is absent or not an array, and makes no
\* call to the completions endpoint for it.
C5_RejectsNonArrayMessages ==
    (/\ rpc # "idle"
     /\ keyConfigured
     /\ req.variant \in ChatVariants
     /\ req.method = "POST"
     /\ ~IsArray(req.messages))
        => (/\ upstreamCalls = <<>>
            /\ rpc = "done" => AnsweredWith(400))

\* C6: without OPENAI_API_KEY every non-preflight request to the chat and TTS
\* handlers is answered with 500 'OpenAI API key not configured' and nothing
\* is sent upstream.
C6_MissingKeyFailsFast ==
    (/\ rpc # "idle"
     /\ ~keyConfigured
     /\ req.method # "OPTIONS")
        => (/\ upstreamCalls = <<>>
            /\ rpc = "done"
            /\ AnsweredWith(500)
            /\ responses[1].error = "OpenAI API key not configured")

\* C7: for a hardened chat request whose upstream call failed with an error,
\* the response is 401 exactly when the upstream status was 401, 429 exactly
\* when it was 429, and otherwise 500 carrying the upstream message.
C7_StatusFollowsUpstreamKind ==
    (/\ rpc = "done"
     /\ req.variant = "chatHardened"
     /\ upstreamResult.k = "throw"
     /\ upstreamResult.err.t = "Error")
        => LET st == upstreamResult.err.status
           IN /\ Len(responses) = 1
              /\ (responses[1].status = 401) <=> (st = <<"4", "0", "1">>)
              /\ (responses[1].status = 429) <=> (st = <<"4", "2", "9">>)
              /\ st \notin {<<"4", "0", "1">>, <<"4", "2", "9">>}
                    => (/\ responses[1].status = 500
                        /\ responses[1].details = upstreamResult.err.message)

\* C8: every request to the hardened chat or TTS handler ends with exactly one
\* response and without an exception leaving the handler.
C8_ExactlyOneResponse ==
    (rpc = "done" /\ req.variant \in {"chatHardened", "ttsHardened"})
        => (Len(responses) = 1 /\ ~escaped)

\* the text of a TTS request is a non-empty string of at most 4000 characters
TextAcceptable(x) == x.t = "string" /\ x.n >= 1 /\ x.n <= MaxTextLength

\* with the credential configured, what the hardened TTS handler has to do
\* with the request in hand: 400 and no upstream call unless its text is
\* acceptable, the upstream call if it is
TtsTextDecides ==
    IF TextAcceptable(req.text)
    THEN Len(upstreamCalls) = 1
    ELSE upstreamCalls = <<>> /\ rpc = "done" /\ AnsweredWith(400)

\* C9: with the credential configured, the hardened TTS handler answers 400
\* without an upstream call to every request whose text is missing, empty, not
\* a string or longer than 4000 characters, and forwards every non-empty
\* string of at most 4000 characters upstream.
C9_TtsTextValidation ==
    (/\ rpc # "idle"
     /\ keyConfigured
     /\ req.variant = "ttsHardened"
     /\ req.method # "OPTIONS")
        => TtsTextDecides

\* the same for the requests that carry a body
TtsTextValidationOfBodies ==
    (/\ rpc # "idle"
     /\ keyConfigured
     /\ req.variant = "ttsHardened"
     /\ req.method # "OPTIONS"
     /\ req.hasBody)
        => TtsTextDecides

\* C15: the chat relay leaves the messages array of the request as it
\* arrived, and what it forwards upstream is that list in the same order,
\* behind one system message when the request has a (non-empty) systemPrompt
\* and by itself when it has none.
C15_RelayLeavesMessagesAlone ==
    (rpc # "idle" /\ req.variant \in ChatVariants /\ IsArray(req.messages)) =>
        /\ bodyMessages = req.messages
        /\ \A i \in 1..Len(upstreamCalls) :
            upstreamCalls[i] = IF Truthy(req.systemPrompt)
                               THEN <<"system">> \o req.messages.v
                               ELSE req.messages.v

\* two messages and a system prompt were forwarded and answered
C15_ForwardedWithSystemPrompt ==
    /\ rpc = "done"
    /\ req.variant = "chatHardened"
    /\ IsArray(req.messages)
    /\ req.messages.v = <<"m1", "m2">>
    /\ Truthy(req.systemPrompt)
    /\ upstreamCalls = <<<<"system", "m1", "m2">>>>
    /\ AnsweredWith(200)

\* C29: the speed of the speech request the hardened TTS handler makes for
\* a request with a numeric speed lies in [0.25, 4.0]: it is the requested
\* speed when that lies in the range, 0.25 when it is below and 4.0 when it
\* is above.
C29_SpeedClamped ==
    (/\ rpc # "idle"
     /\ req.variant = "ttsHardened"
     /\ req.speed.t = "number"
     /\ upstreamCalls # <<>>)
        => /\ upstreamSpeed.t = "number"
           /\ upstreamSpeed.inf = 0
           /\ MinSpeed <= upstreamSpeed.n /\ upstreamSpeed.n <= MaxSpeed
           /\ upstreamSpeed.n =
                IF req.speed.inf < 0 \/ (req.speed.inf = 0 /\ req.speed.n < MinSpeed) THEN MinSpeed
                ELSE IF req.speed.inf > 0 \/ req.speed.n > MaxSpeed THEN MaxSpeed
                ELSE req.speed.n

\* a request with a speed just under the range was spoken at 0.25
C29_SlowSpeedRaised ==
    /\ rpc = "done"
    /\ req.variant = "ttsHardened"
    /\ req.speed = Hundredths(MinSpeed - 1)
    /\ upstreamSpeed = Hundredths(MinSpeed)
    /\ AnsweredWith(200)

(***************************************************************************)
(* Plan tracker hook (useZoxaaPlans)                                       *)
(***************************************************************************)

\* bound: most steps a plan is given
MaxManySteps == 40

\* (completedSteps / steps.length) * 100, rounded, in double arithmetic
PercentTable ==
    [n \in 1..MaxManySteps |->
        [c \in 0..n |-> IF c = 0 THEN 0 ELSE MathRound(TimesHundred(Divide(c, n)))]]

\* the completed steps of a list
CompletedSteps(steps) == {i \in 1..Len(steps) : steps[i].completed}

\* calculateCompletion(steps)
calculateCompletion(steps) ==
    IF Len(steps) = 0 THEN 0
    ELSE PercentTable[Len(steps)][Cardinality(CompletedSteps(steps))]

Step(id, completed) == [id |-> id, completed |-> completed]

\* the steps generatePlanSteps returns: none of them completed, ids in order
GeneratedSteps(n) == [i \in 1..n |-> Step(i, FALSE)]

\* a steps list of n steps whose first c are completed
PrefixSteps(c, n) == [i \in 1..n |-> Step(i, i <= c)]

\* a Partial<ZoxaaPlan>: the fields it carries and their values
PlanUpdates(fields, steps, pct) ==
    [fields |-> fields, steps |-> steps, completionPercentage |-> pct]

\* { ...plan, ...updates }
Merged(plan, updates) ==
    [plan EXCEPT
        !.steps = IF "steps" \in updates.fields THEN updates.steps ELSE @,
        !.completionPercentage =
            IF "completionPercentage" \in updates.fields
            THEN updates.completionPercentage ELSE @]

\* what updatePlan makes of the plan it is called for
UpdatedPlan(plan, updates, now) ==
    [Merged(plan, updates) EXCEPT
        !.updatedAt = now,
        !.completionPercentage = calculateCompletion(Merged(plan, updates).steps)]

\* an updateStep that takes every step for the one it is called for
UpdatedStepsAll(steps, stepId, completed) ==
    [i \in 1..Len(steps) |-> [steps[i] EXCEPT !.completed = completed]]

\* what updateStep makes of the steps: { ...step, ...updates } where ids match
UpdatedSteps(steps, stepId, completed) ==
    [i \in 1..Len(steps) |->
        IF steps[i].id = stepId THEN [steps[i] EXCEPT !.completed = completed] ELSE steps[i]]

\* an id no step of the list has
FreshStepId(steps) == 1 + Max({0} \cup {steps[i].id : i \in 1..Len(steps)})

\* what updateStep makes of the plan it is called for
StepUpdatedPlan(plan, stepId, completed, now) ==
    LET updatedSteps == UpdatedSteps(plan.steps, stepId, completed)
    IN [plan EXCEPT
            !.steps = updatedSteps,
            !.updatedAt = now,
            !.completionPercentage = calculateCompletion(updatedSteps)]

\* what addStep makes of the plan it is called for
StepAddedPlan(plan, completed, now) ==
    LET updatedSteps == Append(plan.steps, Step(FreshStepId(plan.steps), completed))
    IN [plan EXCEPT
            !.steps = updatedSteps,
            !.updatedAt = now,
            !.completionPercentage = calculateCompletion(updatedSteps)]

\* createPlan: the generated steps arrive and the plan is put first; now is
\* what new Date() gives
CreatePlan(planId, n, now) ==
    /\ \A i \in 1..Len(plans) : plans[i].id # planId
    /\ plans' = <<[id |-> planId, steps |-> GeneratedSteps(n), completionPercentage |-> 0,
                   createdAt |-> now, updatedAt |-> now]>> \o plans
    /\ UNCHANGED exceptPlans

\* updatePlan(planId, updates)
UpdatePlan(planId, updates, now) ==
    /\ plans' = [i \in 1..Len(plans) |->
                    IF plans[i].id = planId THEN UpdatedPlan(plans[i], updates, now) ELSE plans[i]]
    /\ UNCHANGED exceptPlans

\* updateStep(planId, stepId, { completed })
UpdateStep(planId, stepId, completed, now) ==
    /\ plans' = [i \in 1..Len(plans) |->
                    IF plans[i].id = planId
                    THEN StepUpdatedPlan(plans[i], stepId, completed, now) ELSE plans[i]]
    /\ UNCHANGED exceptPlans

\* addStep(planId, step)
AddStep(planId, completed, now) ==
    /\ plans' = [i \in 1..Len(plans) |->
                    IF plans[i].id = planId THEN StepAddedPlan(plans[i], completed, now) ELSE plans[i]]
    /\ UNCHANGED exceptPlans

\* deletePlan(planId)
DeletePlan(planId) ==
    /\ plans' = SelectSeq(plans, LAMBDA plan : plan.id # planId)
    /\ UNCHANGED exceptPlans

\* a Date as JSON.stringify writes it, and new Date() of that text
Iso(date) == [iso |-> date]

NewDate(text) == text.iso

\* what localStorage holds under a key of the hooks: nothing, a text that
\* JSON.parse or the map over its result throws on, or the list the hook
\* wrote in an earlier session
NothingStored == [k |-> "null", v |-> <<>>]

CorruptStored == [k |-> "corrupt", v |-> <<>>]

StoredList(items) == [k |-> "json", v |-> items]

\* JSON.stringify of a plan
StoredPlan(plan) ==
    [plan EXCEPT !.createdAt = Iso(plan.createdAt), !.updatedAt = Iso(plan.updatedAt)]

\* { ...p, createdAt: new Date(p.createdAt), updatedAt: new Date(p.updatedAt),
\*   steps: p.steps.map(...) }
RevivedPlan(p) ==
    [p EXCEPT !.createdAt = NewDate(p.createdAt), !.updatedAt = NewDate(p.updatedAt)]

\* the plans the mount effect puts into the state: the initial [] stays when
\* nothing is stored and when the stored text makes the effect throw
LoadedPlans(saved) ==
    IF saved.k = "json" THEN [i \in 1..Len(saved.v) |-> RevivedPlan(saved.v[i])] ELSE <<>>

\* what 'zoxaa_plans' holds when the hook mounts; the plan was created with
\* two steps at time 0 and its first step completed
SavedPlans ==
    {NothingStored, CorruptStored, StoredList(<<>>),
     StoredList(<<StoredPlan([id |-> "p1", steps |-> <<Step(1, TRUE), Step(2, FALSE)>>,
                              completionPercentage |-> 50, createdAt |-> 0, updatedAt |-> 0])>>)}

\* the hook after its mount: useState([]) and the effect that loads the
\* stored plans
PlansInit == \E savedPlans \in SavedPlans : plans = LoadedPlans(savedPlans)

\* the hook with no plans
PlansAtRest == plans = <<>>

\* the plan with this id, for the guards below
PlanWithId(planId) ==
    plans[CHOOSE i \in 1..Len(plans) : plans[i].id = planId]

HasPlan(planId) == \E i \in 1..Len(plans) : plans[i].id = planId

\* the steps lists updatePlan is handed: none, all steps open, all steps done
ReplacementSteps ==
    {<<>>, PrefixSteps(0, MaxManySteps), PrefixSteps(MaxManySteps, MaxManySteps)}

\* Plans with many steps.  The steps of a plan stay of the shape "the first c
\* are completed": steps are completed in order, or un-completed from the
\* last completed one.  The clock stands at 0.
CompletionNext ==
    \/ \E n \in 0..MaxManySteps : CreatePlan("p1", n, 0)
    \/ \E steps \in ReplacementSteps, pct \in {0, 50, 100},
          fields \in SUBSET {"steps", "completionPercentage"} :
            UpdatePlan("p1", PlanUpdates(fields, steps, pct), 0)
    \/ \E done \in BOOLEAN :
        /\ HasPlan("p1")
        /\ LET c == Cardinality(CompletedSteps(PlanWithId("p1").steps))
           IN UpdateStep("p1", IF done THEN c + 1 ELSE c, done, 0)
    \/ /\ HasPlan("p1")
       /\ Len(PlanWithId("p1").steps) < MaxManySteps
       /\ AddStep("p1", FALSE, 0)
    \/ DeletePlan("p1")

\* the percentage of c completed steps out of n, rounded to the nearest
\* integer (halves upwards)
RoundedPercent(c, n) == IF n = 0 THEN 0 ELSE (200 * c + n) \div (2 * n)

\* C4: every plan's completionPercentage equals round(100 * completed steps /
\* total steps), and 0 when the plan has no steps.
C4_CompletionIsRoundedPercentage ==
    \A i \in 1..Len(plans) :
        plans[i].completionPercentage =
            RoundedPercent(Cardinality(CompletedSteps(plans[i].steps)), Len(plans[i].steps))

\* bound: plans in the list
MaxPlans == 3

\* bound: steps of a plan, where several plans are kept
MaxFewSteps == 1

PlanIds == {"p1", "p2", "p3"}

\* the steps lists updatePlan is handed where several plans are kept
FewReplacementSteps == {<<>>, PrefixSteps(1, 1)}

\* Several plans of few steps; every operation is tried with every plan id
\* and step id, those that match nothing among them.  The clock reads 1 when
\* the plans are created and 2 from then on.
PlansNext ==
    \/ /\ Len(plans) < MaxPlans
       /\ \E planId \in PlanIds, n \in 0..MaxFewSteps : CreatePlan(planId, n, 1)
    \/ \E planId \in PlanIds, steps \in FewReplacementSteps, pct \in {50},
          fields \in SUBSET {"steps", "completionPercentage"} :
            UpdatePlan(planId, PlanUpdates(fields, steps, pct), 2)
    \/ \E planId \in PlanIds, stepId \in 1..(MaxFewSteps + 1), completed \in BOOLEAN :
            UpdateStep(planId, stepId, completed, 2)
    \/ \E planId \in PlanIds, completed \in BOOLEAN :
        /\ \A i \in 1..Len(plans) : plans[i].id = planId => Len(plans[i].steps) < MaxFewSteps
        /\ AddStep(planId, completed, 2)
    \/ \E planId \in PlanIds : DeletePlan(planId)

\* the plans other than P stay as they are and every plan stays in its place
OthersUntouched(P) ==
    /\ Len(plans') = Len(plans)
    /\ \A i \in 1..Len(plans) :
        /\ plans'[i].id = plans[i].id
        /\ plans[i].id # P => plans'[i] = plans[i]

\* the plans other than P are what is left, each as it was, in their order
OthersRemain(P) ==
    LET kept == {i \in 1..Len(plans) : plans[i].id # P}
    IN /\ Len(plans') = Cardinality(kept)
       /\ \A i \in kept : plans'[Cardinality({j \in kept : j <= i})] = plans[i]

\* no step of plan P has this id
NoSuchStep(P, stepId) ==
    \A i \in 1..Len(plans) :
        plans[i].id = P => \A j \in 1..Len(plans[i].steps) : plans[i].steps[j].id # stepId

\* a step by updatePlan, updateStep or addStep called for plan P
UpdatesPlan(P) ==
    \/ \E steps \in FewReplacementSteps, pct \in {50},
          fields \in SUBSET {"steps", "completionPercentage"} :
            UpdatePlan(P, PlanUpdates(fields, steps, pct), 2)
    \/ \E stepId \in 1..(MaxFewSteps + 1), completed \in BOOLEAN :
            UpdateStep(P, stepId, completed, 2)
    \/ \E completed \in BOOLEAN : AddStep(P, completed, 2)

\* the list is as it was but for updatedAt of plan P, which is now
OnlyStamped(P, now) ==
    plans' = [i \in 1..Len(plans) |->
                IF plans[i].id = P THEN [plans[i] EXCEPT !.updatedAt = now] ELSE plans[i]]

\* C23: updatePlan, updateStep, addStep and deletePlan called for plan P
\* leave every other plan as it is and the remaining plans in their order;
\* called for a plan id that matches nothing, and updateStep called for a
\* step id that matches nothing, they leave the plans as they are.
C23_OtherPlansUntouched ==
    [][\A P \in PlanIds :
        /\ UpdatesPlan(P) => OthersUntouched(P)
        /\ DeletePlan(P) => OthersRemain(P)
        /\ ((UpdatesPlan(P) \/ DeletePlan(P)) /\ ~HasPlan(P)) => plans' = plans
        /\ \A stepId \in 1..(MaxFewSteps + 1), completed \in BOOLEAN :
            (UpdateStep(P, stepId, completed, 2) /\ NoSuchStep(P, stepId)) => plans' = plans]_vars

\* C23, amended: updatePlan, updateStep, addStep and deletePlan called for
\* plan P leave every other plan as it is and the remaining plans in their
\* order; called for a plan id that matches nothing they leave the plans as
\* they are; updateStep called for a step id that no step of plan P has
\* leaves the steps and the completionPercentage of every plan as they are
\* and sets updatedAt of plan P, and nothing else, to the time of the call.
C23_OnlyTheStampRefreshed ==
    [][\A P \in PlanIds :
        /\ UpdatesPlan(P) => OthersUntouched(P)
        /\ DeletePlan(P) => OthersRemain(P)
        /\ ((UpdatesPlan(P) \/ DeletePlan(P)) /\ ~HasPlan(P)) => plans' = plans
        /\ \A stepId \in 1..(MaxFewSteps + 1), completed \in BOOLEAN :
            (UpdateStep(P, stepId, completed, 2) /\ NoSuchStep(P, stepId)) =>
                OnlyStamped(P, 2)]_vars

\* three plans created at time 1, the middle one stamped at time 2 with its
\* one step as it was generated, the plans around it as they were created
C23_MiddlePlanStamped ==
    /\ Len(plans) = 3
    /\ \A i \in {1, 3} : plans[i].createdAt = 1 /\ plans[i].updatedAt = 1 /\ Len(plans[i].steps) = 0
    /\ plans[2].createdAt = 1
    /\ plans[2].updatedAt = 2
    /\ plans[2].steps = GeneratedSteps(1)
    /\ plans[2].completionPercentage = 0

(***************************************************************************)
(* Memory hook (useZoxaaMemory): retrieval by embedding and by keyword      *)
(***************************************************************************)

\* bound: longest query
MaxQueryLen == 3

\* bound: most memories in the store
MaxMemories == 2

\* the characters queries are written with
QueryChars == {"a", "B", " "}

Queries == SeqsUpTo(QueryChars, MaxQueryLen)

\* the queries tried with every limit and every outcome of the embedding
\* request; the other queries are tried with the default limit and a missing
\* key, where only their text decides
FewQueries == {<<"a">>, <<"B", " ">>}

\* the limits getRelevantMemories is called with; 5 is its default, and
\* 1 cuts a result of two
Limits == {0, 1, 5}

Importances == {"high", "medium", "low"}

\* what the extraction step yields: content, tags, importance
ExtractedMemories ==
    [content : {<<"a">>, <<"A", "b">>},
     tags : {<<>>, <<<<"B">>>>},
     importance : Importances]

\* the vectors the embeddings endpoint answers with for a memory's content
\* and for a query; <<0, 0>> has magnitude 0 and <<5>> has another length
\* than the vectors of the memories
ContentVectors == {<<3, 4>>, <<4, 3>>, <<-3, -4>>}

QueryVectors == {<<3, 4>>, <<0, 0>>, <<5>>}

\* how a request to the embeddings endpoint ends
EmbeddingFailures == {"noKey", "networkError", "notOk"}

EmbeddingOutcomes == EmbeddingFailures \cup {"ok"}

\* what a call returns to its caller: a value, or a thrown error
Returned(value) == [t |-> "return", v |-> value]

Raised == [t |-> "throw", v |-> <<>>]

\* a generateEmbedding that lets the failure reach its caller
generateEmbeddingRethrows(outcome, vector) ==
    IF outcome = "ok" THEN Returned(vector) ELSE Raised

\* generateEmbedding: the vector of the response; every failure is caught
\* and answered with []
generateEmbedding(outcome, vector) ==
    IF outcome = "ok" THEN Returned(vector) ELSE Returned(<<>>)

\* String.prototype.toLowerCase over the letters in use
ToLowerCase(s) ==
    [i \in 1..Len(s) |->
        CASE s[i] = "A" -> "a"
          [] s[i] = "B" -> "b"
          [] OTHER -> s[i]]

\* String.prototype.split(' ')
RECURSIVE Split(_)
Split(s) ==
    IF \A i \in 1..Len(s) : s[i] # " " THEN <<s>>
    ELSE LET i == CHOOSE k \in 1..Len(s) : s[k] = " " /\ \A j \in 1..(k - 1) : s[j] # " "
         IN <<SubSeq(s, 1, i - 1)>> \o Split(SubSeq(s, i + 1, Len(s)))

\* the filter predicate of the keyword search: keywords.some(keyword =>
\* content includes keyword || tags.some(tag => tag includes keyword))
KeywordMatch(memory, keywords) ==
    \E k \in 1..Len(keywords) :
        \/ Includes(ToLowerCase(memory.content), keywords[k])
        \/ \E t \in 1..Len(memory.tags) : Includes(ToLowerCase(memory.tags[t]), keywords[k])

importanceOrder == [high |-> 3, medium |-> 2, low |-> 1]

\* the comparator handed to sort
CompareImportance(a, b) == importanceOrder[b.importance] - importanceOrder[a.importance]

\* Array.prototype.sort with that comparator: a stable sort, each element
\* inserted behind the elements that do not have to come after it
RECURSIVE SortByImportance(_)
SortByImportance(items) ==
    IF Len(items) = 0 THEN <<>>
    ELSE LET sorted == SortByImportance(SubSeq(items, 1, Len(items) - 1))
             x == items[Len(items)]
             k == Max({0} \cup {i \in 1..Len(sorted) : CompareImportance(sorted[i], x) <= 0})
         IN SubSeq(sorted, 1, k) \o <<x>> \o SubSeq(sorted, k + 1, Len(sorted))

\* a slice that keeps one element too many
SliceInclusive(items, limit) ==
    SubSeq(items, 1, IF limit + 1 < Len(items) THEN limit + 1 ELSE Len(items))

\* Array.prototype.slice(0, limit) for limit >= 0
Slice(items, limit) == SubSeq(items, 1, IF limit < Len(items) THEN limit ELSE Len(items))

\* the keyword fallback: filter, sort, slice
KeywordSearch(store, query, limit) ==
    LET keywords == Split(ToLowerCase(query))
    IN Slice(SortByImportance(SelectSeq(store, LAMBDA memory : KeywordMatch(memory, keywords))), limit)

\* a.reduce((sum, a_i, i) => sum + a_i * b[i], 0), for vectors of small
\* integers: every partial sum is an integer, which a double holds exactly
RECURSIVE DotProduct(_, _)
DotProduct(a, b) ==
    IF Len(a) = 0 THEN 0
    ELSE DotProduct(SubSeq(a, 1, Len(a) - 1), b) + a[Len(a)] * b[Len(a)]

\* Math.sqrt of a perfect square, which is its exact root
Sqrt(n) == CHOOSE r \in 0..n : r * r = n

\* the number 0, and a number of sign s (1 or -1) whose absolute value is
\* the double d
Zero == [s |-> 0, d |-> [m |-> <<>>, e |-> 0]]

Signed(s, d) == [s |-> s, d |-> d]

\* the products of magnitudes that the vectors in use give
MagnitudeProducts ==
    {Sqrt(DotProduct(a, a)) * Sqrt(DotProduct(b, b)) : a \in QueryVectors, b \in ContentVectors} \ {0}

\* the quotients c / n of a dot product by a product of magnitudes
QuotientTable ==
    [p \in {q \in (1..Max(MagnitudeProducts)) \X MagnitudeProducts : q[1] <= q[2]} |->
        Divide(p[1], p[2])]

\* dotProduct / (magnitudeA * magnitudeB)
Quotient(dot, product) ==
    IF dot = 0 THEN Zero
    ELSE Signed(IF dot < 0 THEN -1 ELSE 1,
                QuotientTable[<<IF dot < 0 THEN 0 - dot ELSE dot, product>>])

cosineSimilarity(a, b) ==
    IF Len(a) # Len(b) THEN Zero
    ELSE LET dotProduct == DotProduct(a, b)
             magnitudeA == Sqrt(DotProduct(a, a))
             magnitudeB == Sqrt(DotProduct(b, b))
         IN IF magnitudeA = 0 \/ magnitudeB = 0 THEN Zero
            ELSE Quotient(dotProduct, magnitudeA * magnitudeB)

\* x < y for two significands of the same length
BitsLess(x, y) ==
    \E i \in 1..Len(x) : x[i] < y[i] /\ \A j \in 1..(i - 1) : x[j] = y[j]

\* x < y for two positive doubles
DoubleLess(x, y) == x.e < y.e \/ (x.e = y.e /\ BitsLess(x.m, y.m))

\* x < y for two numbers
Less(x, y) ==
    IF x.s # y.s THEN x.s < y.s
    ELSE IF x.s = 1 THEN DoubleLess(x.d, y.d)
    ELSE IF x.s = -1 THEN DoubleLess(y.d, x.d)
    ELSE FALSE

\* the comparator handed to sort, (a, b) => b.similarity - a.similarity, by
\* the sign of its result
CompareSimilarity(a, b) ==
    IF Less(a.similarity, b.similarity) THEN 1
    ELSE IF Less(b.similarity, a.similarity) THEN -1
    ELSE 0

\* Array.prototype.sort with that comparator
RECURSIVE SortBySimilarity(_)
SortBySimilarity(items) ==
    IF Len(items) = 0 THEN <<>>
    ELSE LET sorted == SortBySimilarity(SubSeq(items, 1, Len(items) - 1))
             x == items[Len(items)]
             k == Max({0} \cup {i \in 1..Len(sorted) : CompareSimilarity(sorted[i], x) <= 0})
         IN SubSeq(sorted, 1, k) \o <<x>> \o SubSeq(sorted, k + 1, Len(sorted))

\* the memories that have an embedding, each with its similarity
WithSimilarity(store, queryEmbedding) ==
    LET embedded == SelectSeq(store, LAMBDA memory : Len(memory.embedding) > 0)
    IN [i \in 1..Len(embedded) |->
            [memory |-> embedded[i],
             similarity |-> cosineSimilarity(queryEmbedding, embedded[i].embedding)]]

\* the embedding path: filter, map, sort, slice, map
SimilaritySearch(store, queryEmbedding, limit) ==
    LET top == Slice(SortBySimilarity(WithSimilarity(store, queryEmbedding)), limit)
    IN [i \in 1..Len(top) |-> top[i].memory]

\* the body of getRelevantMemories: an error thrown inside it is caught and
\* answered with []
RelevantMemories(store, query, limit, embedded) ==
    IF embedded.t = "throw" THEN Returned(<<>>)
    ELSE IF Len(embedded.v) = 0 THEN Returned(KeywordSearch(store, query, limit))
    ELSE Returned(SimilaritySearch(store, embedded.v, limit))

\* bound: memories created
MaxMemoriesMade == 2

\* the sequence without its i-th element
Without(items, i) == SubSeq(items, 1, i - 1) \o SubSeq(items, i + 1, Len(items))

\* a getRelevantMemories call suspended at await generateEmbedding: store is
\* the memories of the render the called callback was created in
Recall(query, limit, store) == [query |-> query, limit |-> limit, store |-> store]

\* the call that returned last, with its result; "none" once the caller has
\* used it
NothingRecalled ==
    [k |-> "none", query |-> <<>>, limit |-> 0, store |-> <<>>, outcome |-> "ok",
     embedding |-> <<>>, result |-> Returned(<<>>)]

\* bound: getRelevantMemories calls pending together
MaxRecalls == 2

\* the calls during which other calls of the hook are made
BusyQueries == {<<"a">>}

BusyLimits == {5}

Busy(call) == call.query \in BusyQueries /\ call.limit \in BusyLimits

\* bound: the stores during which other calls of the hook are made hold
\* memories without tags, of low importance
Small(store) ==
    \A k \in 1..Len(store) : store[k].tags = <<>> /\ store[k].importance = "low"

\* a call is pending or waits for its result to be used
CallsOut == recalls # <<>> \/ recalled.k # "none"

\* every such call is one of the calls above, on a small store
AllBusy ==
    /\ \A i \in 1..Len(recalls) : Busy(recalls[i]) /\ Small(recalls[i].store)
    /\ recalled.k = "none" \/ (Busy(recalled) /\ Small(recalled.store))

\* bound: the store changes once at most between two renders, and between a
\* getRelevantMemories call and the use of its result, and then only during
\* the calls above
StoreMayChange ==
    /\ memoriesHeld = memories
    /\ CallsOut =>
            /\ AllBusy
            /\ \A i \in 1..Len(recalls) : recalls[i].store = memories
            /\ recalled.k = "none" \/ recalled.store = memories

\* the memories the mount effect puts into the state: the initial [] stays
\* when nothing is stored and when the stored text makes the effect throw;
\* content, tags, importance and embedding come back from JSON as they were
\* written
LoadedMemories(saved) == IF saved.k = "json" THEN saved.v ELSE <<>>

\* what 'zoxaa_memories' holds when the hook mounts; the memory is one an
\* earlier session extracted
SavedMemories ==
    {NothingStored, CorruptStored, StoredList(<<>>),
     StoredList(<<[id |-> 1, content |-> <<"a">>, tags |-> <<>>, importance |-> "high",
                   embedding |-> <<3, 4>>]>>)}

\* the hook after its mount: useState([]) and the effect that loads the
\* stored memories; the render the caller holds is the first, which has none
MemoryInit ==
    /\ \E savedMemories \in SavedMemories : memories = LoadedMemories(savedMemories)
    /\ memoriesHeld = <<>>
    /\ recalls = <<>>
    /\ recalled = NothingRecalled
    /\ memoriesMade = Len(memories)

\* the hook with no memories
MemoryAtRest ==
    /\ memories = <<>>
    /\ memoriesHeld = <<>>
    /\ recalls = <<>>
    /\ recalled = NothingRecalled
    /\ memoriesMade = 0

\* processConversationForMemories: the extracted memory is appended, with
\* the embedding generateEmbedding returned for its content
ProcessConversationForMemories ==
    /\ StoreMayChange
    /\ Len(memories) < MaxMemories
    /\ memoriesMade < MaxMemoriesMade
    /\ \E extracted \in ExtractedMemories, outcome \in {"ok", "notOk"}, vector \in ContentVectors :
        memories' = Append(memories,
            [id |-> memoriesMade + 1, content |-> extracted.content,
             tags |-> extracted.tags, importance |-> extracted.importance,
             embedding |-> generateEmbedding(outcome, vector).v])
    /\ CallsOut => Small(memories')
    /\ memoriesMade' = memoriesMade + 1
    /\ UNCHANGED <<memoriesHeld, recalls, recalled, exceptMemory>>

\* setMemories(prev => prev.filter(m => m.id !== memoryId))
WithoutMemory(prev, memoryId) == SelectSeq(prev, LAMBDA m : m.id # memoryId)

\* deleteMemory(memoryId)
DeleteMemory(memoryId) ==
    /\ StoreMayChange
    /\ memories' = WithoutMemory(memories, memoryId)
    /\ UNCHANGED <<memoriesHeld, recalls, recalled, memoriesMade, exceptMemory>>

\* the hook renders with the state as it is, and the caller takes the
\* getRelevantMemories and saveConversation of that render
MemoryHookRenders ==
    /\ <<memoriesHeld, conversationsHeld>> # <<memories, conversations>>
    /\ memoriesHeld' = memories
    /\ conversationsHeld' = conversations
    /\ UNCHANGED <<memories, recalls, recalled, memoriesMade, conversations, saveCalls,
                   saveReturned, dateNow, relayVars, planVars, recognitionVars, playbackVars,
                   chatVars, pageVars>>

\* getRelevantMemories(query, limit), to its await of generateEmbedding: the
\* call holds the memories of the render its callback was created in.
\* Bound: a call on a callback of an earlier render, and a call made while
\* another is pending, is one of the calls above
GetRelevantMemories ==
    /\ Len(recalls) < MaxRecalls
    /\ \E query \in Queries, limit \in Limits :
        LET call == Recall(query, limit, memoriesHeld)
        IN /\ query \notin FewQueries => limit \in BusyLimits
           /\ \/ ~CallsOut /\ memoriesHeld = memories
              \/ Busy(call) /\ AllBusy /\ Small(memories) /\ Small(memoriesHeld)
           /\ recalls' = Append(recalls, call)
    /\ UNCHANGED <<memories, memoriesHeld, recalled, memoriesMade, exceptMemory>>

\* getRelevantMemories, from the answer of generateEmbedding to its return:
\* the search runs on the memories the callback was created with
EmbeddingResolves(i) ==
    /\ i \in 1..Len(recalls)
    /\ \E outcome \in EmbeddingOutcomes, vector \in QueryVectors :
        /\ outcome # "ok" => vector = <<3, 4>>
        /\ outcome # "noKey" => recalls[i].query \in FewQueries
        /\ LET call == recalls[i]
               embedded == generateEmbedding(outcome, vector)
           IN recalled' =
                [k |-> "returned", query |-> call.query, limit |-> call.limit,
                 store |-> call.store, outcome |-> outcome, embedding |-> embedded.v,
                 result |-> RelevantMemories(call.store, call.query, call.limit, embedded)]
    /\ recalls' = Without(recalls, i)
    /\ UNCHANGED <<memories, memoriesHeld, memoriesMade, exceptMemory>>

\* the caller has used the result
RecallUsed ==
    /\ recalled.k = "returned"
    /\ recalled' = NothingRecalled
    /\ UNCHANGED <<memories, memoriesHeld, recalls, memoriesMade, exceptMemory>>

MemoryNext ==
    \/ ProcessConversationForMemories
    \/ \E memoryId \in 1..MaxMemoriesMade : DeleteMemory(memoryId)
    \/ MemoryHookRenders
    \/ GetRelevantMemories
    \/ \E i \in 1..MaxRecalls : EmbeddingResolves(i)
    \/ RecallUsed

\* the words of a query: its maximal runs of characters other than spaces,
\* lower-cased
QueryWords(query) ==
    LET q == ToLowerCase(query)
        n == Len(q)
    IN {SubSeq(q, p[1], p[2]) : p \in {r \in (1..n) \X (1..n) :
            /\ r[1] <= r[2]
            /\ \A i \in r[1]..r[2] : q[i] # " "
            /\ (r[1] = 1 \/ q[r[1] - 1] = " ")
            /\ (r[2] = n \/ q[r[2] + 1] = " ")}}

\* the memory has the word in its lower-cased content or in a lower-cased tag
ContainsWord(memory, word) ==
    \/ Includes(ToLowerCase(memory.content), word)
    \/ \E i \in 1..Len(memory.tags) : Includes(ToLowerCase(memory.tags[i]), word)

\* C10: in the keyword fallback every returned memory contains at least one
\* word of the query as a substring of its lower-cased content or of a
\* lower-cased tag, and the returned memories are ordered by importance,
\* high before medium before low.
C10_KeywordFallbackMatchesAWord ==
    (recalled.k = "returned" /\ Len(recalled.embedding) = 0) =>
        /\ \A i \in 1..Len(recalled.result.v) :
            \E word \in QueryWords(recalled.query) : ContainsWord(recalled.result.v[i], word)
        /\ \A i, j \in 1..Len(recalled.result.v) :
            i < j => importanceOrder[recalled.result.v[i].importance]
                        >= importanceOrder[recalled.result.v[j].importance]

\* the recall went down the embedding path
ByEmbedding == recalled.k = "returned" /\ Len(recalled.embedding) > 0

\* the similarity of a stored memory to the query of the recall
SimilarityOf(memory) == cosineSimilarity(recalled.embedding, memory.embedding)

\* the memories the call searched that have an embedding and were not
\* returned
LeftOut ==
    {i \in 1..Len(recalled.store) :
        /\ Len(recalled.store[i].embedding) > 0
        /\ \A j \in 1..Len(recalled.result.v) : recalled.result.v[j] # recalled.store[i]}

\* on the embedding path the returned memories are in non-increasing order
\* of similarity to the query, and no memory with an embedding that the call
\* searched and left out is strictly more similar than a returned one
TopOfTheMemoriesSearched ==
    ByEmbedding =>
        /\ \A i, j \in 1..Len(recalled.result.v) :
            i < j => ~Less(SimilarityOf(recalled.result.v[i]), SimilarityOf(recalled.result.v[j]))
        /\ \A i \in LeftOut : \A j \in 1..Len(recalled.result.v) :
            ~Less(SimilarityOf(recalled.result.v[j]), SimilarityOf(recalled.store[i]))

\* the more similar of two stored memories was stored second, and it alone
\* is returned
SecondMemoryWins ==
    /\ ByEmbedding
    /\ Len(recalled.store) = 2
    /\ LeftOut = {1}
    /\ recalled.result.v = <<recalled.store[2]>>
    /\ Less(SimilarityOf(recalled.store[1]), SimilarityOf(recalled.store[2]))
    /\ SimilarityOf(recalled.store[1]).s = 1

\* the result is in non-increasing order of similarity to the query
\* embedding, and no memory of the store that has an embedding and was left
\* out is strictly more similar than a returned one
TopOf(store, embedding, result) ==
    /\ \A i, j \in 1..Len(result) :
        i < j => ~Less(cosineSimilarity(embedding, result[i].embedding),
                       cosineSimilarity(embedding, result[j].embedding))
    /\ \A k \in 1..Len(store) : \A j \in 1..Len(result) :
        (Len(store[k].embedding) > 0 /\ \A r \in 1..Len(result) : result[r] # store[k]) =>
            ~Less(cosineSimilarity(embedding, result[j].embedding),
                  cosineSimilarity(embedding, store[k].embedding))

\* C11: on the embedding path the memories getRelevantMemories returns are
\* in non-increasing order of similarity to the query and are the top-N of
\* the store: no stored memory with an embedding that was left out is
\* strictly more similar than a returned one.
C11_TopBySimilarity ==
    [][\A i \in 1..MaxRecalls :
            (EmbeddingResolves(i) /\ Len(recalled'.embedding) > 0) =>
                TopOf(memories', recalled'.embedding, recalled'.result.v)]_vars

\* what getRelevantMemories returns is of the store: at most limit memories,
\* each of them in the store, none of them twice, none from an empty store
OfTheStore(result, limit, store) ==
    /\ result.t = "return"
    /\ Len(result.v) <= limit
    /\ \A i \in 1..Len(result.v) : \E k \in 1..Len(store) : store[k] = result.v[i]
    /\ \A i, j \in 1..Len(result.v) : i # j => result.v[i] # result.v[j]
    /\ (Len(store) = 0 => result.v = <<>>)

\* C12: for every query and every limit >= 0, on the embedding path and on
\* the keyword path, getRelevantMemories returns at most limit memories,
\* each of them a memory in the store at its return, none of them twice;
\* with an empty store it returns the empty list.
C12_AtMostLimitStoredMemories ==
    [][\A i \in 1..MaxRecalls :
            EmbeddingResolves(i) => OfTheStore(recalled'.result, recalled'.limit, memories')]_vars

\* the same of the memories the call searched
C12_OfTheStoreSearched ==
    recalled.k = "returned" => OfTheStore(recalled.result, recalled.limit, recalled.store)

\* two stored memories match the query and the limit of 1 lets one through
C12_LimitCuts ==
    /\ recalled.k = "returned"
    /\ Len(recalled.embedding) = 0
    /\ recalled.limit = 1
    /\ Len(recalled.store) = 2
    /\ \A k \in 1..2 : KeywordMatch(recalled.store[k], Split(ToLowerCase(recalled.query)))
    /\ Len(recalled.result.v) = 1

\* C13: when the embedding request for the query fails (no key, network
\* error, response not OK), getRelevantMemories returns, and returns what the
\* keyword fallback returns for the same query, limit and memories.
C13_FailureDegradesToKeywords ==
    (recalled.k = "returned" /\ recalled.outcome \in EmbeddingFailures) =>
        recalled.result = Returned(KeywordSearch(recalled.store, recalled.query, recalled.limit))

\* the request failed, memories with embeddings are stored, and the keyword
\* search found them
C13_FailedRequestStillRecalls ==
    /\ recalled.k = "returned"
    /\ recalled.outcome = "networkError"
    /\ Len(recalled.store) = 2
    /\ \A k \in 1..2 : Len(recalled.store[k].embedding) > 0
    /\ Len(recalled.result.v) = 2
    /\ recalled.limit = 5

\* the memories of the store that have an embedding
Embedded(store) == SelectSeq(store, LAMBDA memory : Len(memory.embedding) > 0)

\* C28: when the query embedding was obtained, every memory
\* getRelevantMemories returns has a stored embedding, and when no stored
\* memory has an embedding the result is empty, whatever the keyword search
\* would find.
C28_OnlyEmbeddedMemories ==
    [][\A i \in 1..MaxRecalls :
            (EmbeddingResolves(i) /\ Len(recalled'.embedding) > 0) =>
                /\ recalled'.result.t = "return"
                /\ \A j \in 1..Len(recalled'.result.v) :
                    Len(recalled'.result.v[j].embedding) > 0
                /\ Embedded(memories') = <<>> => recalled'.result.v = <<>>]_vars

\* with the query embedded, every memory returned has an embedding, and with
\* no embedding in the memories the call searched the result is empty
OnlyEmbeddedOfTheMemoriesSearched ==
    (recalled.k = "returned" /\ Len(recalled.embedding) > 0) =>
        /\ recalled.result.t = "return"
        /\ \A i \in 1..Len(recalled.result.v) : Len(recalled.result.v[i].embedding) > 0
        /\ (\A k \in 1..Len(recalled.store) : Len(recalled.store[k].embedding) = 0)
                => recalled.result.v = <<>>

\* two memories stored, the first without an embedding, both found by the
\* keyword search for the query; with the query embedded only the second is
\* returned
UnembeddedMemoryLeftOut ==
    /\ recalled.k = "returned"
    /\ Len(recalled.embedding) > 0
    /\ Len(recalled.store) = 2
    /\ Len(recalled.store[1].embedding) = 0
    /\ Len(recalled.store[2].embedding) > 0
    /\ Len(KeywordSearch(recalled.store, recalled.query, recalled.limit)) = 2
    /\ recalled.result.v = <<recalled.store[2]>>

(***************************************************************************)
(* Voice hook (useRealTimeVoice): speech recognition                       *)
(*                                                                         *)
(* isListening, voiceSupported, permissionGranted and currentTranscript    *)
(* are the hook's state with every update applied; rendered is what the    *)
(* last render showed of it.  A handler only queues its updates: the       *)
(* render, and the recognition effect with it, is a step of its own, and   *)
(* updates that cancel before it leave nothing to render.  The effect      *)
(* depends on isListening and voiceSupported: when one of them has changed *)
(* and voice is supported, it puts a new SpeechRecognition instance into   *)
(* the ref.  The handlers of an instance are closures of the render that   *)
(* created it, so each instance carries the isListening value its handlers *)
(* see (capL).                                                             *)
(***************************************************************************)

maxRestartAttempts == 5

\* bound: started instances the ref has lost
MaxDetached == 1

\* bound: startRealTimeListening calls suspended at the same time
MaxStartCalls == 2

\* bound: requestMicrophonePermission calls of the page suspended at the
\* same time
MaxPermissionRequests == 1

\* bound: restarts counted in one session
MaxCountedRestarts == 6

\* bound: pending timers of one kind
MaxTimers == 1

\* event.error: "aborted" and "audio-capture" are handled as "network" is, up
\* to the text of the toast; "other" is the default branch
ErrorKinds == {"not-allowed", "no-speech", "network", "service-not-allowed", "other"}

\* an instance: idle (not started, or ended), starting (start() called),
\* active (its start event has fired), stopping (stop() while active: a
\* result for the audio captured and its end event are still to come),
\* ending (an error, or stop() before the start event: its end event is
\* still to come), denied (a 'not-allowed' error, its end event is still to
\* come)
Instance(capL, st) == [capL |-> capL, st |-> st]

DetachedKinds == BOOLEAN \X {"starting", "active", "stopping", "ending", "denied"}

NoneDetached == [k \in DetachedKinds |-> 0]

\* the detached instances that are starting or active
DetachedStarted(det) ==
    det[<<FALSE, "starting">>] + det[<<FALSE, "active">>]
        + det[<<TRUE, "starting">>] + det[<<TRUE, "active">>]

DetachedCount(det) ==
    DetachedStarted(det) + det[<<FALSE, "ending">>] + det[<<TRUE, "ending">>]
        + det[<<FALSE, "stopping">>] + det[<<TRUE, "stopping">>]
        + det[<<FALSE, "denied">>] + det[<<TRUE, "denied">>]

\* the instances that exist: the one in the ref and the detached ones
Present ==
    {[held |-> TRUE, capL |-> recognition.capL, st |-> recognition.st]}
        \cup {[held |-> FALSE, capL |-> k[1], st |-> k[2]] : k \in {d \in DetachedKinds : detached[d] > 0}}

\* the ref's instance and the detached ones after instance i has gone to st
Moved(i, st) ==
    IF i.held
    THEN [inst |-> Instance(i.capL, st), det |-> detached]
    ELSE [inst |-> recognition,
          det |-> [k \in DetachedKinds |->
                    IF k = <<i.capL, i.st>> /\ k = <<i.capL, st>> THEN detached[k]
                    ELSE IF k = <<i.capL, i.st>> THEN detached[k] - 1
                    ELSE IF k = <<i.capL, st>> THEN detached[k] + 1
                    ELSE detached[k]]]

\* what a render shows of the hook's state
Rendered(listening, supported, permission) ==
    [listening |-> listening, supported |-> supported, permission |-> permission]

\* the recognition effect runs after a render of this state
EffectRuns(listening, supported) ==
    supported /\ (listening # rendered.listening \/ supported # rendered.supported)

\* setIsListening / setVoiceSupported of a handler that leaves the instances
\* as inst and det: the updates are queued
Commit(listening, supported, inst, det) ==
    /\ isListening' = listening
    /\ voiceSupported' = supported
    /\ recognition' = inst
    /\ detached' = det

\* React renders the queued updates; the recognition effect:
\* recognitionRef.current = new SpeechRecognition() with no cleanup of the
\* instance it held
Render ==
    /\ rendered # Rendered(isListening, voiceSupported, permissionGranted)
    /\ rendered' = Rendered(isListening, voiceSupported, permissionGranted)
    /\ recognition' =
        IF EffectRuns(isListening, voiceSupported) THEN Instance(isListening, "idle")
        ELSE recognition
    /\ detached' =
        IF EffectRuns(isListening, voiceSupported) /\ recognition.st # "idle"
        THEN [detached EXCEPT ![<<recognition.capL, recognition.st>>] = @ + 1]
        ELSE detached
    /\ DetachedCount(detached') <= MaxDetached
    /\ UNCHANGED <<isListening, permissionGranted, voiceSupported, currentTranscript,
                   restartCount, isRestarting, recentlyRestarted, timers, startCalls,
                   permissionRequests, restarts, exceptRecognition>>

\* recognition.stop()
Stopped(inst) ==
    IF inst.st = "starting" THEN Instance(inst.capL, "ending")
    ELSE IF inst.st = "active" THEN Instance(inst.capL, "stopping")
    ELSE inst

NoTimers == [errStop |-> 0, errStart |-> 0, endRestart |-> 0]

NoStartCalls == [permission |-> 0, delay |-> 0]

\* the hook after mount, the support check having found the speech API
RecognitionInit ==
    /\ isListening = FALSE
    /\ permissionGranted = FALSE
    /\ voiceSupported = TRUE
    /\ rendered = Rendered(FALSE, TRUE, FALSE)
    /\ currentTranscript = ""
    /\ recognition = Instance(FALSE, "idle")
    /\ detached = NoneDetached
    /\ restartCount = 0
    /\ isRestarting = FALSE
    /\ recentlyRestarted = FALSE
    /\ timers = NoTimers
    /\ startCalls = NoStartCalls
    /\ permissionRequests = 0
    /\ restarts = 0

\* the switch of onerror: does this error ask for a restart
ShouldRestart(kind) ==
    CASE kind = "not-allowed" -> FALSE
      [] kind = "service-not-allowed" -> FALSE
      [] kind = "no-speech" -> restartCount < 1
      [] OTHER -> TRUE

\* recognition.onerror of instance i
OnError(i, kind) ==
    LET m == Moved(i, IF kind = "not-allowed" THEN "denied" ELSE "ending")
        schedules == ShouldRestart(kind) /\ i.capL /\ ~isRestarting /\ ~recentlyRestarted
        supported == IF kind = "service-not-allowed" THEN FALSE ELSE voiceSupported
    IN
    /\ i.st \in {"starting", "active"}
    /\ IF restartCount >= maxRestartAttempts
       THEN /\ Commit(FALSE, voiceSupported, m.inst, m.det)
            /\ UNCHANGED <<permissionGranted, restartCount, isRestarting, recentlyRestarted,
                           timers, restarts>>
       ELSE /\ restartCount' = IF ShouldRestart(kind) THEN restartCount + 1 ELSE restartCount
            /\ permissionGranted' = IF kind = "not-allowed" THEN FALSE ELSE permissionGranted
            /\ IF schedules
               THEN /\ timers.errStop < MaxTimers
                    /\ restarts < MaxCountedRestarts
                    /\ isRestarting' = TRUE
                    /\ recentlyRestarted' = TRUE
                    /\ timers' = [timers EXCEPT !.errStop = @ + 1]
                    /\ restarts' = restarts + 1
                    /\ Commit(isListening, supported, m.inst, m.det)
               ELSE /\ Commit(IF ShouldRestart(kind) THEN isListening ELSE FALSE,
                              supported, m.inst, m.det)
                    /\ UNCHANGED <<isRestarting, recentlyRestarted, timers, restarts>>
    /\ UNCHANGED <<rendered, currentTranscript, startCalls, permissionRequests,
                   exceptRecognition>>

\* recognition.onresult of instance i: while it is active, and once more
\* after stop() for the audio captured so far
OnResult(i) ==
    /\ i.st \in {"active", "stopping"}
    /\ currentTranscript' = "heard"
    /\ UNCHANGED <<isListening, permissionGranted, voiceSupported, rendered, recognition,
                   detached, restartCount, isRestarting, recentlyRestarted, timers, startCalls,
                   permissionRequests, restarts, exceptRecognition>>

\* recognition.onstart of instance i
OnStart(i) ==
    LET m == Moved(i, "active") IN
    /\ i.st = "starting"
    /\ isRestarting' = FALSE
    /\ Commit(TRUE, voiceSupported, m.inst, m.det)
    /\ UNCHANGED <<permissionGranted, rendered, currentTranscript, restartCount,
                   recentlyRestarted, timers, startCalls, permissionRequests, restarts,
                   exceptRecognition>>

\* recognition.onend of instance i
OnEnd(i) ==
    LET m == Moved(i, "idle") IN
    /\ i.st \in {"active", "stopping", "ending", "denied"}
    /\ IF i.capL /\ ~isRestarting
       THEN IF restartCount < 2
            THEN /\ timers.endRestart < MaxTimers
                 /\ restarts < MaxCountedRestarts
                 /\ timers' = [timers EXCEPT !.endRestart = @ + 1]
                 /\ restarts' = restarts + 1
                 /\ Commit(isListening, voiceSupported, m.inst, m.det)
            ELSE /\ Commit(FALSE, voiceSupported, m.inst, m.det)
                 /\ UNCHANGED <<timers, restarts>>
       ELSE /\ Commit(isListening, voiceSupported, m.inst, m.det)
            /\ UNCHANGED <<timers, restarts>>
    /\ UNCHANGED <<permissionGranted, rendered, currentTranscript, restartCount, isRestarting,
                   recentlyRestarted, startCalls, permissionRequests, exceptRecognition>>

\* the 2000 ms callback of onerror: stop(), then the 1000 ms callback is set
ErrStopTimerFires ==
    /\ timers.errStop > 0
    /\ timers.errStart < MaxTimers
    /\ recognition' = Stopped(recognition)
    /\ timers' = [timers EXCEPT !.errStop = @ - 1, !.errStart = @ + 1]
    /\ isRestarting' = FALSE
    /\ UNCHANGED <<isListening, permissionGranted, voiceSupported, rendered, currentTranscript,
                   detached, restartCount, recentlyRestarted, startCalls, permissionRequests,
                   restarts, exceptRecognition>>

\* a callback that restarts: try { recognitionRef.current.start() }
\* catch { setIsListening(false) }; start() throws unless the instance is idle
RestartTimerFires(timer) ==
    /\ timers[timer] > 0
    /\ timers' = [timers EXCEPT ![timer] = @ - 1]
    /\ IF recognition.st = "idle"
       THEN Commit(isListening, voiceSupported, Instance(recognition.capL, "starting"), detached)
       ELSE Commit(FALSE, voiceSupported, recognition, detached)
    /\ UNCHANGED <<permissionGranted, rendered, currentTranscript, restartCount, isRestarting,
                   recentlyRestarted, startCalls, permissionRequests, restarts,
                   exceptRecognition>>

\* the 1000 ms callback of onerror
ErrStartTimerFires == RestartTimerFires("errStart")

\* the 500 ms callback of onend
EndRestartTimerFires == RestartTimerFires("endRestart")

\* three seconds have gone by since the last restart onerror scheduled:
\* now - lastRestartTimeRef.current is 3000 or more from here on
ThreeSecondsPass ==
    /\ recentlyRestarted
    /\ recentlyRestarted' = FALSE
    /\ UNCHANGED <<isListening, permissionGranted, voiceSupported, rendered, currentTranscript,
                   recognition, detached, restartCount, isRestarting, timers, startCalls,
                   permissionRequests, restarts, exceptRecognition>>

\* startRealTimeListening up to its first await; the closure reads
\* voiceSupported, isListening and permissionGranted of the last render
StartRealTimeListening ==
    /\ startCalls.permission + startCalls.delay < MaxStartCalls
    /\ startCalls' =
        IF ~rendered.supported \/ rendered.listening THEN startCalls
        ELSE IF ~rendered.permission THEN [startCalls EXCEPT !.permission = @ + 1]
        ELSE [startCalls EXCEPT !.delay = @ + 1]
    /\ UNCHANGED <<isListening, permissionGranted, voiceSupported, rendered, currentTranscript,
                   recognition, detached, restartCount, isRestarting, recentlyRestarted,
                   timers, permissionRequests, restarts, exceptRecognition>>

\* requestMicrophonePermission, called by the page, up to its await of
\* getUserMedia
RequestMicrophonePermission ==
    /\ permissionRequests < MaxPermissionRequests
    /\ permissionRequests' = permissionRequests + 1
    /\ UNCHANGED <<isListening, permissionGranted, voiceSupported, rendered, currentTranscript,
                   recognition, detached, restartCount, isRestarting, recentlyRestarted,
                   timers, startCalls, restarts, exceptRecognition>>

\* getUserMedia settles for a requestMicrophonePermission call of the page:
\* setPermissionGranted
MicrophonePermissionSettles(granted) ==
    /\ permissionRequests > 0
    /\ permissionRequests' = permissionRequests - 1
    /\ permissionGranted' = granted
    /\ UNCHANGED <<isListening, voiceSupported, rendered, currentTranscript, recognition,
                   detached, restartCount, isRestarting, recentlyRestarted, timers, startCalls,
                   restarts, exceptRecognition>>

\* requestMicrophonePermission resolves for a suspended call: granted, the
\* call goes on to its 100 ms delay (recognitionRef.current.state is
\* undefined, so the check before the delay never returns); denied, it throws
PermissionResolves(granted) ==
    /\ startCalls.permission > 0
    /\ permissionGranted' = granted
    /\ startCalls' =
        IF granted
        THEN [startCalls EXCEPT !.permission = @ - 1, !.delay = @ + 1]
        ELSE [startCalls EXCEPT !.permission = @ - 1]
    /\ UNCHANGED <<isListening, voiceSupported, rendered, currentTranscript, recognition,
                   detached, restartCount, isRestarting, recentlyRestarted, timers,
                   permissionRequests, restarts, exceptRecognition>>

\* the 100 ms delay of a suspended call is over: the counters are reset,
\* recognitionRef.current.start() is called and, unless it throws,
\* setIsListening(true)
DelayElapses ==
    /\ startCalls.delay > 0
    /\ startCalls' = [startCalls EXCEPT !.delay = @ - 1]
    /\ restartCount' = 0
    /\ recentlyRestarted' = FALSE
    /\ isRestarting' = FALSE
    /\ restarts' = 0
    /\ IF recognition.st = "idle"
       THEN Commit(TRUE, voiceSupported, Instance(recognition.capL, "starting"), detached)
       ELSE Commit(isListening, voiceSupported, recognition, detached)
    /\ UNCHANGED <<permissionGranted, rendered, currentTranscript, timers, permissionRequests,
                   exceptRecognition>>

\* stopRealTimeListening
StopRealTimeListening ==
    /\ Commit(FALSE, voiceSupported, Stopped(recognition), detached)
    /\ currentTranscript' = ""
    /\ restartCount' = 0
    /\ recentlyRestarted' = FALSE
    /\ isRestarting' = FALSE
    /\ restarts' = 0
    /\ UNCHANGED <<permissionGranted, rendered, timers, startCalls, permissionRequests,
                   exceptRecognition>>

\* clearTranscript
ClearTranscript ==
    /\ currentTranscript' = ""
    /\ UNCHANGED <<isListening, permissionGranted, voiceSupported, rendered, recognition,
                   detached, restartCount, isRestarting, recentlyRestarted, timers, startCalls,
                   permissionRequests, restarts, exceptRecognition>>

\* bound: restarts scheduled, or errors counted, from which a session is
\* followed only while nothing else is going on
DeepRestarts == 2

\* no call is suspended, the ref has lost no instance and no transcript is held
Calm ==
    /\ startCalls = NoStartCalls
    /\ permissionRequests = 0
    /\ detached = NoneDetached
    /\ currentTranscript = ""

\* bound: the states followed.  A long chain of restarts, and a hook that
\* has lost voice support, are followed while calm; a permission request of
\* the page is followed while it is the only thing pending
Explored ==
    /\ (restarts >= DeepRestarts \/ restartCount >= DeepRestarts \/ ~voiceSupported) => Calm
    /\ permissionRequests > 0 =>
        (startCalls = NoStartCalls /\ detached = NoneDetached /\ recognition.st = "idle"
            /\ timers = NoTimers /\ restarts = 0 /\ restartCount = 0)

RecognitionNext ==
    \/ StartRealTimeListening /\ Explored'
    \/ RequestMicrophonePermission /\ Explored'
    \/ \E granted \in BOOLEAN : MicrophonePermissionSettles(granted) /\ Explored'
    \/ \E granted \in BOOLEAN : PermissionResolves(granted) /\ Explored'
    \/ DelayElapses /\ Explored'
    \/ StopRealTimeListening /\ Explored'
    \/ ClearTranscript /\ Explored'
    \/ Render /\ Explored'
    \/ \E i \in Present : OnStart(i) /\ Explored'
    \/ \E i \in Present : OnResult(i) /\ Explored'
    \/ \E i \in Present, kind \in ErrorKinds : OnError(i, kind) /\ Explored'
    \/ \E i \in Present : OnEnd(i) /\ Explored'
    \/ ErrStopTimerFires /\ Explored'
    \/ ErrStartTimerFires /\ Explored'
    \/ EndRestartTimerFires /\ Explored'
    \/ ThreeSecondsPass /\ Explored'

\* recognition sessions in progress: instances started and not yet ending
StartedInstances ==
    (IF recognition.st \in {"starting", "active"} THEN 1 ELSE 0)
        + DetachedStarted(detached)

\* C2: at most one recognition session is in progress, whatever the
\* interleaving of startRealTimeListening calls.
C2_SingleRecognitionSession == StartedInstances <= 1

\* C3: within a session the error and end handlers schedule at most
\* maxRestartAttempts restarts.
C3_RestartsBounded == restarts <= maxRestartAttempts

\* C19: a stopRealTimeListening call leaves no recognition instance started
\* or active, isListening false and the transcript empty.
C19_StopEndsRecognition ==
    [][StopRealTimeListening =>
        (StartedInstances' = 0 /\ ~isListening' /\ currentTranscript' = "")]_vars

\* no restart callback is set by this step
NoTimerAdded == \A t \in DOMAIN timers : timers'[t] <= timers[t]

\* C20: a 'not-allowed' error ends the session: its handler leaves
\* isListening false and sets no restart callback, and neither does the end
\* event that follows it.
C20_PermissionErrorEndsSession ==
    [][\A i \in Present :
        /\ OnError(i, "not-allowed") => (~isListening' /\ NoTimerAdded)
        /\ (i.st = "denied" /\ OnEnd(i)) => NoTimerAdded]_vars

(***************************************************************************)
(* Voice hook (useRealTimeVoice): playback                                 *)
(***************************************************************************)

\* bound: speakWithEmotion calls suspended at the same time
MaxSpeakCalls == 3

\* bound: playing Audio elements the ref has lost
MaxDetachedAudio == 2

\* an Audio element: its state and whether currentTime is 0
Audio(st, atStart) == [st |-> st, atStart |-> atStart]

NoAudio == Audio("none", TRUE)

\* bound: bytes of an audio the speech endpoint answers with
MaxAudioBytes == 4

\* the audio the speech endpoint answers with
UpstreamAudio == SeqsUpTo({0, 255}, MaxAudioBytes)

Base64Alphabet ==
    <<"A", "B", "C", "D", "E", "F", "G", "H", "I", "J", "K", "L", "M", "N", "O", "P",
      "Q", "R", "S", "T", "U", "V", "W", "X", "Y", "Z", "a", "b", "c", "d", "e", "f",
      "g", "h", "i", "j", "k", "l", "m", "n", "o", "p", "q", "r", "s", "t", "u", "v",
      "w", "x", "y", "z", "0", "1", "2", "3", "4", "5", "6", "7", "8", "9", "+", "/">>

\* buffer.toString('base64'): three bytes make four characters, and what is
\* left at the end is padded with '='
RECURSIVE BufferToBase64(_)
BufferToBase64(bytes) ==
    IF Len(bytes) = 0 THEN <<>>
    ELSE IF Len(bytes) = 1
    THEN LET n == bytes[1] * 16
         IN <<Base64Alphabet[(n \div 64) + 1], Base64Alphabet[(n % 64) + 1], "=", "=">>
    ELSE IF Len(bytes) = 2
    THEN LET n == (bytes[1] * 256 + bytes[2]) * 4
         IN <<Base64Alphabet[(n \div 4096) + 1], Base64Alphabet[((n \div 64) % 64) + 1],
              Base64Alphabet[(n % 64) + 1], "=">>
    ELSE LET n == bytes[1] * 65536 + bytes[2] * 256 + bytes[3]
         IN <<Base64Alphabet[(n \div 262144) + 1], Base64Alphabet[((n \div 4096) % 64) + 1],
              Base64Alphabet[((n \div 64) % 64) + 1], Base64Alphabet[(n % 64) + 1]>>
                \o BufferToBase64(SubSeq(bytes, 4, Len(bytes)))

\* the body of a successful response of the hardened TTS handler
TtsJson(mp3) == [audio |-> BufferToBase64(mp3), size |-> Len(mp3)]

\* the six bits a character of the alphabet stands for
Sextet(c) == CHOOSE i \in 0..63 : Base64Alphabet[i + 1] = c

\* the character codes that groups of four characters stand for
RECURSIVE DecodeGroups(_)
DecodeGroups(chars) ==
    IF Len(chars) < 2 THEN <<>>
    ELSE IF Len(chars) = 2
    THEN <<(Sextet(chars[1]) * 64 + Sextet(chars[2])) \div 16>>
    ELSE IF Len(chars) = 3
    THEN LET n == (Sextet(chars[1]) * 4096 + Sextet(chars[2]) * 64 + Sextet(chars[3])) \div 4
         IN <<n \div 256, n % 256>>
    ELSE LET n == Sextet(chars[1]) * 262144 + Sextet(chars[2]) * 4096
                    + Sextet(chars[3]) * 64 + Sextet(chars[4])
         IN <<n \div 65536, (n \div 256) % 256, n % 256>>
                \o DecodeGroups(SubSeq(chars, 5, Len(chars)))

\* an atob that takes the padding for data: '=' read as the character 'A'
AtobPaddingAsData(audio) ==
    DecodeGroups([i \in 1..Len(audio) |-> IF audio[i] = "=" THEN "A" ELSE audio[i]])

\* atob: the binary string, as the sequence of its character codes
Atob(audio) == DecodeGroups(SelectSeq(audio, LAMBDA c : c # "="))

\* audioArray[i] = audioData.charCodeAt(i), into a Uint8Array
ByteCopy(audioData) == [i \in 1..Len(audioData) |-> audioData[i] % 256]

\* what speakWithEmotion makes of the response to its request
Decoded(mp3) ==
    LET result == TtsJson(mp3)
    IN [k |-> "decoded", mp3 |-> mp3, result |-> result,
        audioArray |-> ByteCopy(Atob(result.audio))]

NothingDecoded == [k |-> "none", mp3 |-> <<>>, result |-> TtsJson(<<>>), audioArray |-> <<>>]

\* speakWithEmotion calls suspended at await audio.play(): whether the
\* promise of the ref's element is pending, how many of playing elements the
\* ref has lost are, and how many have been rejected with the catch block
\* still to run
PlayCalls(ref, lost, rejected) == [ref |-> ref, lost |-> lost, rejected |-> rejected]

NoPlayCalls == PlayCalls(FALSE, 0, 0)

PlaysPending == (IF playCalls.ref THEN 1 ELSE 0) + playCalls.lost + playCalls.rejected

PlaybackInit ==
    /\ isSpeaking = FALSE
    /\ currentAudio = NoAudio
    /\ detachedAudio = 0
    /\ speakCalls = 0
    /\ playCalls = NoPlayCalls
    /\ speech = NothingDecoded
    /\ stopped = FALSE

\* speakWithEmotion up to its first await: setIsSpeaking(true), then the fetch
SpeakWithEmotion ==
    /\ speakCalls + PlaysPending < MaxSpeakCalls
    /\ speakCalls' = speakCalls + 1
    /\ isSpeaking' = TRUE
    /\ stopped' = FALSE
    /\ UNCHANGED <<currentAudio, detachedAudio, playCalls, speech, exceptPlayback>>

\* the fetch fails, the response is not ok or the audio cannot be decoded:
\* the catch block runs
SpeakFails ==
    /\ speakCalls > 0
    /\ speakCalls' = speakCalls - 1
    /\ isSpeaking' = FALSE
    /\ UNCHANGED <<currentAudio, detachedAudio, playCalls, speech, stopped, exceptPlayback>>

\* currentAudioRef.current = audio: the element the ref held stays as it is,
\* and so does the promise of its play()
AudioReplaced(audio, pending) ==
    /\ currentAudio' = audio
    /\ detachedAudio' = IF currentAudio.st = "playing" THEN detachedAudio + 1 ELSE detachedAudio
    /\ detachedAudio' <= MaxDetachedAudio
    /\ playCalls' = [playCalls EXCEPT !.ref = pending,
                                      !.lost = IF playCalls.ref THEN @ + 1 ELSE @]

\* the response arrives: its audio is decoded, new Audio, the ref is set,
\* audio.play() starts the element and the call awaits its promise
SpeakPlays ==
    /\ speakCalls > 0
    /\ speakCalls' = speakCalls - 1
    /\ \E mp3 \in UpstreamAudio : speech' = Decoded(mp3)
    /\ AudioReplaced(Audio("playing", TRUE), TRUE)
    /\ UNCHANGED <<isSpeaking, stopped, exceptPlayback>>

\* the response arrives but audio.play() returns a rejected promise (the
\* element is not allowed to play): the catch block runs in the same task
SpeakPlayRejected ==
    /\ speakCalls > 0
    /\ speakCalls' = speakCalls - 1
    /\ \E mp3 \in UpstreamAudio : speech' = Decoded(mp3)
    /\ AudioReplaced(Audio("paused", TRUE), FALSE)
    /\ isSpeaking' = FALSE
    /\ UNCHANGED <<stopped, exceptPlayback>>

\* the promise of audio.play() resolves, for the ref's element or one the
\* ref has lost: speakWithEmotion returns
PlayResolves ==
    /\ \/ /\ playCalls.ref
          /\ currentAudio.st = "playing"
          /\ playCalls' = [playCalls EXCEPT !.ref = FALSE]
       \/ /\ playCalls.lost > 0
          /\ playCalls' = [playCalls EXCEPT !.lost = @ - 1]
    /\ UNCHANGED <<isSpeaking, currentAudio, detachedAudio, speakCalls, speech, stopped,
                   exceptPlayback>>

\* a promise of audio.play() that pause() or a failure of the element has
\* rejected: the catch block of its call runs
PlayRejected ==
    /\ playCalls.rejected > 0
    /\ playCalls' = [playCalls EXCEPT !.rejected = @ - 1]
    /\ isSpeaking' = FALSE
    /\ UNCHANGED <<currentAudio, detachedAudio, speakCalls, speech, stopped, exceptPlayback>>

\* playback of the ref's element moves on
AudioAdvances ==
    /\ currentAudio.st = "playing"
    /\ currentAudio.atStart
    /\ currentAudio' = Audio("playing", FALSE)
    /\ UNCHANGED <<isSpeaking, detachedAudio, speakCalls, playCalls, speech, stopped,
                   exceptPlayback>>

\* audio.onended / audio.onerror of the ref's element; an element that
\* fails while its play() is pending rejects the promise
AudioEnded ==
    /\ currentAudio.st = "playing"
    /\ currentAudio' = Audio("ended", FALSE)
    /\ isSpeaking' = FALSE
    /\ playCalls' = IF playCalls.ref
                    THEN [playCalls EXCEPT !.ref = FALSE, !.rejected = @ + 1]
                    ELSE playCalls
    /\ UNCHANGED <<detachedAudio, speakCalls, speech, stopped, exceptPlayback>>

\* audio.onended / audio.onerror of an element the ref has lost
DetachedAudioEnded ==
    /\ detachedAudio > 0
    /\ detachedAudio' = detachedAudio - 1
    /\ isSpeaking' = FALSE
    /\ \/ /\ detachedAudio > playCalls.lost
          /\ playCalls' = playCalls
       \/ /\ playCalls.lost > 0
          /\ playCalls' = [playCalls EXCEPT !.lost = @ - 1, !.rejected = @ + 1]
    /\ UNCHANGED <<currentAudio, speakCalls, speech, stopped, exceptPlayback>>

\* stopSpeaking: pause() rejects the pending promise of the element's play()
StopSpeaking ==
    /\ IF currentAudio.st # "none"
       THEN /\ currentAudio' = Audio(IF currentAudio.st = "playing" THEN "paused" ELSE currentAudio.st, TRUE)
            /\ isSpeaking' = FALSE
            /\ playCalls' = IF playCalls.ref
                            THEN [playCalls EXCEPT !.ref = FALSE, !.rejected = @ + 1]
                            ELSE playCalls
       ELSE UNCHANGED <<currentAudio, isSpeaking, playCalls>>
    /\ stopped' = TRUE
    /\ UNCHANGED <<detachedAudio, speakCalls, speech, exceptPlayback>>

PlaybackNext ==
    \/ SpeakWithEmotion
    \/ SpeakFails
    \/ SpeakPlays
    \/ SpeakPlayRejected
    \/ PlayResolves
    \/ PlayRejected
    \/ AudioAdvances
    \/ AudioEnded
    \/ DetachedAudioEnded
    \/ StopSpeaking

\* Audio elements created by speakWithEmotion that are playing
PlayingCount == (IF currentAudio.st = "playing" THEN 1 ELSE 0) + detachedAudio

\* C1: at most one Audio element created by speakWithEmotion is playing at
\* any time.
C1_SinglePlayback == PlayingCount <= 1

\* C16: the size a successful JSON TTS response reports is the number of
\* bytes that base64-decoding its audio field gives, and what
\* speakWithEmotion decodes from it (atob, then the byte copy) is the audio
\* the speech endpoint answered with, byte for byte.
C16_AudioSurvivesBase64 ==
    speech.k = "decoded" =>
        /\ speech.result.size = Len(Atob(speech.result.audio))
        /\ speech.audioArray = speech.mp3

\* four bytes, 255 among them, went through as eight characters, two of them
\* padding
C16_PaddedAudioDecoded ==
    /\ speech.k = "decoded"
    /\ speech.mp3 = <<255, 0, 255, 255>>
    /\ Len(speech.result.audio) = 8
    /\ speech.result.audio[7] = "="
    /\ currentAudio.st = "playing"

\* C18: once stopSpeaking has been called, and until speakWithEmotion is
\* called again, isSpeaking is false and no Audio is playing: every Audio
\* that plays then was requested before the stop.
C18_StopSilencesEarlierCalls ==
    stopped => (~isSpeaking /\ PlayingCount = 0)

(***************************************************************************)
(* Chat hook (useZoxaaChat) and the conversation records of the memory hook *)
(*                                                                         *)
(* A message is its role and content.  A text is a sequence of pieces, so  *)
(* that a template string is the concatenation of its parts.               *)
(***************************************************************************)

\* bound: longest conversation a message is added to
MaxConversation == 3

\* bound: sendMessage calls in flight
MaxInFlight == 2

\* bound: conversation rows inserted
MaxSaved == 1

\* userMessage.trim().length > 10: the message becomes a memory row
MemoryThreshold == 10

\* userMessage.length > 100: the memory row has importance 'medium'
MediumThreshold == 100

\* bound: updates of user and messages the render the caller holds is behind
MaxLag == 2

\* bound: messages put in by addMessage, and failed sends, in a conversation
MaxAdded == 1

MaxFailed == 1

\* the number of trailing messages sent as history: messages.slice(-10)
HistoryLength == 10

Message(role, content) == [role |-> role, content |-> content]

\* the message the conversation starts with, and the one clearConversation
\* puts in
Welcome == Message("assistant", <<"Hello! I'm Zoxaa, ... cognitive partner ...">>)

WelcomeBack == Message("assistant", <<"Hello! I'm Zoxaa, ... honest cognitive partner ...">>)

ErrorMessage == Message("assistant", <<"I'm sorry, I'm having trouble connecting right now. Please try again.">>)

\* the system prompt of the request
Persona == <<"You are Zoxaa, a friendly and charming companion. ...">>

\* a message of more than 10 characters
LongMessage == <<"r", "e", "m", "e", "m", "b", "e", "r", " ", "m", "e">>

\* what the user types or says
UserMessages == {<<>>, <<" ">>, <<"a">>, LongMessage}

\* String.prototype.trimStart and trimEnd over texts of single characters
RECURSIVE TrimStart(_)
TrimStart(text) ==
    IF Len(text) > 0 /\ Head(text) = " " THEN TrimStart(Tail(text)) ELSE text

RECURSIVE TrimEnd(_)
TrimEnd(text) ==
    IF Len(text) > 0 /\ text[Len(text)] = " "
    THEN TrimEnd(SubSeq(text, 1, Len(text) - 1))
    ELSE text

\* String.prototype.trim
Trim(text) == TrimEnd(TrimStart(text))

\* rows of the memories table: tags is an array, or null
Row(content, importance, tags) == [content |-> content, importance |-> importance, tags |-> tags]

RowPlain == Row(<<"a">>, "low", JsArray(<<>>))

RowTagged == Row(<<"b">>, "medium", JsArray(<<<<"a">>, <<"c">>>>))

RowOther == Row(<<"b">>, "low", JsArray(<<>>))

RowNullTags == Row(<<"a">>, "low", JsNull)

RowOtherNullTags == Row(<<"b">>, "low", JsNull)

\* what the query for the newest limit * 2 rows of the user answers
TableAnswers ==
    {[error |-> TRUE, data |-> <<>>],
     [error |-> FALSE, data |-> <<>>],
     [error |-> FALSE, data |-> <<RowOther, RowPlain>>],
     [error |-> FALSE, data |-> <<RowPlain, RowTagged, RowOther, RowTagged, RowPlain>>],
     [error |-> FALSE, data |-> <<RowNullTags>>],
     [error |-> FALSE, data |-> <<RowOtherNullTags>>]}

\* memory.content.toLowerCase().includes(q) || memory.tags.some(tag => ...):
\* "throw" when tags is null and the content does not decide
RowMatch(row, query) ==
    IF Includes(ToLowerCase(row.content), ToLowerCase(query)) THEN "yes"
    ELSE IF row.tags.t # "array" THEN "throw"
    ELSE IF \E t \in 1..Len(row.tags.v) : Includes(ToLowerCase(row.tags.v[t]), ToLowerCase(query))
         THEN "yes"
    ELSE "no"

\* useZoxaaChat.getRelevantMemories
ChatRelevantMemories(user, answer, query, limit) ==
    IF ~user THEN <<>>
    ELSE IF answer.error THEN <<>>
    ELSE IF \E i \in 1..Len(answer.data) : RowMatch(answer.data[i], query) = "throw" THEN <<>>
    ELSE Slice(SelectSeq(answer.data, LAMBDA row : RowMatch(row, query) = "yes"), limit)

\* Array.prototype.join
RECURSIVE Join(_, _)
Join(texts, separator) ==
    IF Len(texts) = 0 THEN <<>>
    ELSE IF Len(texts) = 1 THEN texts[1]
    ELSE texts[1] \o separator \o Join(Tail(texts), separator)

\* `- ${m.content} (${m.importance} importance, tags: ${m.tags.join(', ')})`
MemoryLine(m) ==
    <<"- ">> \o m.content \o <<" (", m.importance, " importance, tags: ">>
        \o Join(m.tags.v, <<", ">>) \o <<")">>

\* the memory context of the system prompt: "throw" when a tags is null
MemoryContext(relevantMemories) ==
    IF Len(relevantMemories) = 0 THEN Returned(<<>>)
    ELSE IF \E i \in 1..Len(relevantMemories) : relevantMemories[i].tags.t # "array" THEN Raised
    ELSE Returned(<<"\n\nRelevant memories about this user:\n">>
            \o Join([i \in 1..Len(relevantMemories) |-> MemoryLine(relevantMemories[i])], <<"\n">>))

\* Array.prototype.slice(-n)
SliceLast(items, n) ==
    SubSeq(items, IF Len(items) > n THEN Len(items) - n + 1 ELSE 1, Len(items))

\* messages.slice(-10).map(m => ({role: m.role, content: m.content}))
ConversationHistory(messages) ==
    LET last == SliceLast(messages, HistoryLength)
    IN [i \in 1..Len(last) |-> Message(last[i].role, last[i].content)]

\* the messages of the request body
RequestMessages(memoryContext, conversationHistory, userMessage) ==
    <<Message("system", Persona \o memoryContext)>>
        \o conversationHistory
        \o <<Message("user", userMessage)>>

\* a sendMessage call suspended at an await: messages is the list its
\* closure holds, the state of the render the callback came from; while the
\* fetch is in flight, relevant is what getRelevantMemories returned and
\* body the messages of the request; response is the text /api/chat answered
ChatCall(stage, userMessage, messages, relevant, body, response) ==
    [stage |-> stage, userMessage |-> userMessage, messages |-> messages,
     relevant |-> relevant, body |-> body, response |-> response]

\* the messages addMessage is called with
AddedMessages == {Message("assistant", <<"x">>)}

\* result.response of /api/chat
AiResponses == {<<"r">>}

\* messages of the conversation equal to m
Count(m) == Cardinality({i \in 1..Len(chatMessages) : chatMessages[i] = m})


\* how the sendMessage call that the step ends has ended: "rejected" by its
\* guard, "failed" in its catch block, "answered" after the conversation was
\* handed to the tables; NothingEnded after a step that ends no call
Ended(how, result) == [how |-> how, result |-> result]

NothingEnded == Ended("none", Returned(<<>>))

\* the row of the conversations table: title and compressed_data.messages
ConversationRow(newMessages, userMessage) ==
    [table |-> "conversations", content |-> Slice(userMessage, 100),
     messages |-> [i \in 1..Len(newMessages) |->
                     Message(newMessages[i].role, newMessages[i].content)],
     importance |-> ""]

\* the row of the memories table: content and importance
MemoryRow(userMessage) ==
    [table |-> "memories", content |-> userMessage, messages |-> <<>>,
     importance |-> IF Len(userMessage) > MediumThreshold THEN "medium" ELSE "low"]

\* how an insert into a table ends
InsertOutcomes == {"ok", "error"}

\* rows of the conversations table
ConversationRows == Cardinality({i \in 1..Len(supabase) : supabase[i].table = "conversations"})

\* what a render of the hook gives the sendMessage it creates
ChatRender(user, messages) == [user |-> user, messages |-> messages]

\* the render of the state as it is
ChatRendered == ChatRender(chatUser, chatMessages)

\* the updates of user and messages that the render held has not seen
Lag ==
    (IF chatHeld.user = chatUser THEN 0 ELSE 1)
        + (IF /\ Len(chatHeld.messages) <= Len(chatMessages)
              /\ SubSeq(chatMessages, 1, Len(chatHeld.messages)) = chatHeld.messages
           THEN Len(chatMessages) - Len(chatHeld.messages)
           ELSE Len(chatMessages))

ChatInit ==
    /\ chatUser = FALSE
    /\ chatMessages = <<Welcome>>
    /\ chatHeld = ChatRender(FALSE, <<Welcome>>)
    /\ isThinking = FALSE
    /\ chatCalls = <<>>
    /\ supabase = <<>>
    /\ chatReturned = NothingEnded

\* onAuthStateChange: setUser(session?.user || null)
AuthChanges ==
    /\ chatUser' = ~chatUser
    /\ chatReturned' = NothingEnded
    /\ UNCHANGED <<chatMessages, chatHeld, isThinking, chatCalls, supabase, exceptChat>>

\* setIsThinking(value): the setter of the state, which the hook returns to
\* its caller
SetIsThinking(value) ==
    /\ isThinking' = value
    /\ chatReturned' = NothingEnded
    /\ UNCHANGED <<chatUser, chatMessages, chatHeld, chatCalls, supabase, exceptChat>>

\* sendMessage, to its first await: user and messages are those of the render
\* the callback was created in, and the new message is appended to the state
SendMessage(userMessage) ==
    /\ Len(chatCalls) < MaxInFlight
    /\ Len(chatMessages) < MaxConversation
    /\ IF Len(Trim(userMessage)) = 0 \/ ~chatHeld.user
       THEN /\ chatReturned' = Ended("rejected", Returned(<<>>))
            /\ UNCHANGED <<chatMessages, isThinking, chatCalls>>
       ELSE /\ chatMessages' = Append(chatMessages, Message("user", userMessage))
            /\ isThinking' = TRUE
            /\ chatCalls' = Append(chatCalls,
                    ChatCall("memories", userMessage, chatHeld.messages, <<>>, <<>>, <<>>))
            /\ chatReturned' = NothingEnded
    /\ UNCHANGED <<chatUser, chatHeld, supabase, exceptChat>>

\* what sendMessage can catch: the TypeError of a null tags, the error
\* thrown for a response that is not ok, the rejection of fetch
Thrown(error) == [t |-> "throw", v |-> error]

TagsError == Thrown(<<"TypeError: Cannot read properties of null (reading 'join')">>)

ChatApiError == Thrown(<<"Backend API error: ", "Internal Server Error">>)

FetchError == Thrown(<<"TypeError: Failed to fetch">>)

\* the catch and finally blocks of sendMessage: the error message is
\* appended, the error thrown again, isThinking reset
SendFailed(i, error) ==
    /\ chatMessages' = Append(chatMessages, ErrorMessage)
    /\ isThinking' = FALSE
    /\ chatCalls' = Without(chatCalls, i)
    /\ supabase' = supabase
    /\ chatReturned' = Ended("failed", error)

\* sendMessage, from the answer of the memories table to the fetch
MemoriesResolve(i) ==
    /\ i \in 1..Len(chatCalls)
    /\ chatCalls[i].stage = "memories"
    /\ \E answer \in TableAnswers :
        LET call == chatCalls[i]
            relevantMemories == ChatRelevantMemories(TRUE, answer, call.userMessage, 3)
            memoryContext == MemoryContext(relevantMemories)
        IN IF memoryContext.t = "throw"
           THEN /\ Count(ErrorMessage) < MaxFailed
                /\ SendFailed(i, TagsError)
           ELSE /\ chatCalls' = [chatCalls EXCEPT ![i] =
                    ChatCall("fetch", call.userMessage, call.messages, relevantMemories,
                             RequestMessages(memoryContext.v,
                                             ConversationHistory(call.messages),
                                             call.userMessage),
                             <<>>)]
                /\ chatReturned' = NothingEnded
                /\ UNCHANGED <<chatMessages, isThinking, supabase>>
    /\ UNCHANGED <<chatUser, chatHeld, exceptChat>>

\* sendMessage, from the response of /api/chat to the call of
\* saveConversationToSupabase
RelayAnswers(i) ==
    /\ i \in 1..Len(chatCalls)
    /\ chatCalls[i].stage = "fetch"
    /\ \E outcome \in {"ok", "notOk", "rejected"} :
        IF outcome = "ok"
        THEN \E aiResponse \in AiResponses :
                LET call == chatCalls[i]
                IN /\ chatMessages' = Append(chatMessages, Message("assistant", aiResponse))
                   /\ chatCalls' = [chatCalls EXCEPT ![i] =
                        ChatCall("save", call.userMessage, call.messages, call.relevant,
                                 call.body, aiResponse)]
                   /\ chatReturned' = NothingEnded
                   /\ UNCHANGED <<isThinking, supabase>>
        ELSE /\ Count(ErrorMessage) < MaxFailed
             /\ SendFailed(i, IF outcome = "notOk" THEN ChatApiError ELSE FetchError)
    /\ UNCHANGED <<chatUser, chatHeld, exceptChat>>

\* sendMessage, from the end of saveConversationToSupabase to its own:
\* return aiResponse, finally setIsThinking(false)
SendReturns(i) ==
    /\ isThinking' = FALSE
    /\ chatCalls' = Without(chatCalls, i)
    /\ chatReturned' = Ended("answered", Returned(chatCalls[i].response))

\* a sendMessage that treats a failed insert as a failed send
SaveOrFail(i) ==
    /\ i \in 1..Len(chatCalls)
    /\ chatCalls[i].stage = "save"
    /\ \E outcome \in InsertOutcomes :
        LET call == chatCalls[i]
            newMessages == <<Message("user", call.userMessage),
                             Message("assistant", call.response)>>
        IN IF outcome = "error"
           THEN /\ SendFailed(i, FetchError)
           ELSE /\ ConversationRows < MaxSaved
                /\ supabase' = Append(supabase, ConversationRow(newMessages, call.userMessage))
                /\ UNCHANGED chatMessages
                /\ SendReturns(i)
    /\ UNCHANGED <<chatUser, chatHeld, exceptChat>>

\* saveConversationToSupabase([userMsg, aiMsg], userMessage), from the answer
\* of the insert into conversations: a failed insert is caught and ends the
\* call; after a row was inserted a trimmed message of more than 10
\* characters is inserted into memories, and the call awaits that
SaveConversationToSupabase(i) ==
    /\ i \in 1..Len(chatCalls)
    /\ chatCalls[i].stage = "save"
    /\ \E outcome \in InsertOutcomes :
        LET call == chatCalls[i]
            newMessages == <<Message("user", call.userMessage),
                             Message("assistant", call.response)>>
        IN IF outcome = "error"
           THEN /\ supabase' = supabase
                /\ SendReturns(i)
           ELSE /\ ConversationRows < MaxSaved
                /\ supabase' = Append(supabase, ConversationRow(newMessages, call.userMessage))
                /\ IF Len(Trim(call.userMessage)) > MemoryThreshold
                   THEN /\ chatCalls' = [chatCalls EXCEPT ![i].stage = "saveMemory"]
                        /\ chatReturned' = NothingEnded
                        /\ UNCHANGED isThinking
                   ELSE SendReturns(i)
    /\ UNCHANGED <<chatUser, chatHeld, chatMessages, exceptChat>>

\* saveConversationToSupabase, from the answer of the insert into memories,
\* and sendMessage to its end
MemoryInsertSettles(i) ==
    /\ i \in 1..Len(chatCalls)
    /\ chatCalls[i].stage = "saveMemory"
    /\ \E outcome \in InsertOutcomes :
        supabase' = IF outcome = "ok"
                    THEN Append(supabase, MemoryRow(chatCalls[i].userMessage))
                    ELSE supabase
    /\ SendReturns(i)
    /\ UNCHANGED <<chatUser, chatHeld, chatMessages, exceptChat>>

\* addMessage
AddMessage ==
    /\ Len(chatMessages) < MaxConversation
    /\ \E message \in AddedMessages :
        /\ Count(message) < MaxAdded
        /\ chatMessages' = Append(chatMessages, message)
    /\ chatReturned' = NothingEnded
    /\ UNCHANGED <<chatUser, chatHeld, isThinking, chatCalls, supabase, exceptChat>>

\* clearConversation
ClearConversation ==
    /\ chatMessages' = <<WelcomeBack>>
    /\ chatReturned' = NothingEnded
    /\ UNCHANGED <<chatUser, chatHeld, isThinking, chatCalls, supabase, exceptChat>>

\* the hook renders with the state as it is, and the caller takes the
\* sendMessage of that render
ChatHookRenders ==
    /\ chatHeld # ChatRendered
    /\ chatHeld' = ChatRendered
    /\ chatReturned' = NothingEnded
    /\ UNCHANGED <<chatUser, chatMessages, isThinking, chatCalls, supabase, exceptChat>>

\* bound: clearConversation is called in the conversation the hook starts
\* with
FirstConversation == chatMessages[1] = Welcome

\* bound: the hook renders before the render the caller holds falls further
\* behind than MaxLag updates
KeepsUp == Lag < MaxLag

\* the hook and its callers; the long message is sent as the first of a
\* conversation
ChatNext ==
    \/ KeepsUp /\ AuthChanges
    \/ \E userMessage \in UserMessages :
            /\ KeepsUp
            /\ Len(userMessage) > MemoryThreshold => Len(chatMessages) = 1
            /\ SendMessage(userMessage)
    \/ \E i \in 1..MaxInFlight : KeepsUp /\ MemoriesResolve(i)
    \/ \E i \in 1..MaxInFlight : KeepsUp /\ RelayAnswers(i)
    \/ \E i \in 1..MaxInFlight : SaveConversationToSupabase(i)
    \/ \E i \in 1..MaxInFlight : MemoryInsertSettles(i)
    \/ KeepsUp /\ AddMessage
    \/ \E value \in BOOLEAN : SetIsThinking(value)
    \/ KeepsUp /\ FirstConversation /\ ClearConversation
    \/ ChatHookRenders

\* bound: conversation records
MaxRecords == 2

\* bound: saveConversation calls suspended at their await
MaxPendingSaves == 1

\* bound: saveConversation calls that end
MaxSaves == 3

\* the message lists saveConversation is called with
SavedMessages ==
    {<<Message("user", <<"a">>)>>,
     <<Message("user", <<"a">>), Message("assistant", <<"r">>)>>,
     <<Message("assistant", <<"r">>)>>}

\* what processConversationForMemories extracts from the conversation text:
\* nothing (also when the request fails), or one memory
Extractions ==
    {<<>>,
     <<[id |-> 0, content |-> <<"a">>, tags |-> <<>>, importance |-> "high",
        embedding |-> <<3, 4>>]>>}

\* the new memories with their ids
NewMemories(extracted) ==
    [i \in 1..Len(extracted) |-> [extracted[i] EXCEPT !.id = memoriesMade + i]]

\* the record saveConversation builds
Conversation(id, messages, extractedMemories, createdAt, updatedAt) ==
    [id |-> id, messages |-> messages,
     memories |-> [i \in 1..Len(extractedMemories) |-> extractedMemories[i].id],
     createdAt |-> createdAt, updatedAt |-> updatedAt]

\* a saveConversation call suspended at its await: closure is the
\* conversations state of the render the callback came from; the call
\* awaits the extraction ("extraction"), or processConversationForMemories
\* has returned the new memories and the call has not resumed ("extracted")
SaveCall(messages, conversationId, closure, stage, extractedMemories) ==
    [messages |-> messages, conversationId |-> conversationId, closure |-> closure,
     stage |-> stage, extractedMemories |-> extractedMemories]

\* the ids of the records of a conversations state
Ids(records) == {records[i].id : i \in 1..Len(records)}

\* Array.prototype.find: the first record with the id
Find(records, id) ==
    records[CHOOSE i \in 1..Len(records) :
                /\ records[i].id = id
                /\ \A j \in 1..(i - 1) : records[j].id # id]

\* conversationId ? conversations.find(c => c.id === conversationId)?.createdAt
\*                  || new Date() : new Date()
CreatedAt(conversationId, closure, now) ==
    IF conversationId # 0 /\ conversationId \in Ids(closure)
    THEN Find(closure, conversationId).createdAt
    ELSE now

\* prev.map(c => c.id === conversationId ? conversation : c), or
\* [...prev, conversation] without a conversationId
WithConversation(prev, conversationId, conversation) ==
    IF conversationId # 0
    THEN [i \in 1..Len(prev) |->
            IF prev[i].id = conversationId THEN conversation ELSE prev[i]]
    ELSE Append(prev, conversation)

\* saveConversation(messages, conversationId), to its await; conversationId 0
\* stands for an absent one, any other is the id of a stored record.
\* Bound: the calls that end, and the records they leave
SaveConversation(messages, conversationId) ==
    /\ Len(saveCalls) < MaxPendingSaves
    /\ dateNow <= MaxSaves
    /\ conversationId = 0 => Len(conversations) < MaxRecords
    /\ conversationId = 0 \/ conversationId \in Ids(conversations)
    /\ saveCalls' = Append(saveCalls,
            SaveCall(messages, conversationId, conversationsHeld, "extraction", <<>>))
    /\ UNCHANGED <<conversations, conversationsHeld, saveReturned, dateNow, memoryVars, chatVars, relayVars,
                   planVars, recognitionVars, playbackVars, pageVars>>

\* processConversationForMemories, from the answers of the extraction and of
\* the embeddings to its return: setMemories(prev => [...prev, ...newMemories])
\* and the new memories are what the saveConversation that awaits them gets
ExtractionResolves(i) ==
    /\ i \in 1..Len(saveCalls)
    /\ saveCalls[i].stage = "extraction"
    /\ \E extracted \in Extractions :
        LET extractedMemories == NewMemories(extracted)
        IN /\ Len(memories) + Len(extracted) <= MaxMemories
           /\ memoriesMade + Len(extracted) <= MaxMemoriesMade
           /\ memories' = memories \o extractedMemories
           /\ memoriesMade' = memoriesMade + Len(extracted)
           /\ saveCalls' = [saveCalls EXCEPT ![i].stage = "extracted",
                                             ![i].extractedMemories = extractedMemories]
    /\ UNCHANGED <<memoriesHeld, recalls, recalled, conversations, conversationsHeld,
                   saveReturned, dateNow, chatVars, relayVars, planVars, recognitionVars,
                   playbackVars, pageVars>>

\* saveConversation, from the memories it awaited to its end: the record is
\* built and put into the state, and its id returned
SaveConversationResumes(i) ==
    /\ i \in 1..Len(saveCalls)
    /\ saveCalls[i].stage = "extracted"
    /\ LET call == saveCalls[i]
           conversation ==
                Conversation(IF call.conversationId # 0 THEN call.conversationId ELSE dateNow,
                             call.messages, call.extractedMemories,
                             CreatedAt(call.conversationId, call.closure, dateNow), dateNow)
       IN /\ conversations' = WithConversation(conversations, call.conversationId, conversation)
          /\ saveReturned' = conversation.id
    /\ saveCalls' = Without(saveCalls, i)
    /\ dateNow' = dateNow + 1
    /\ UNCHANGED <<memoryVars, conversationsHeld, chatVars, relayVars, planVars,
                   recognitionVars, playbackVars, pageVars>>

\* JSON.stringify of a conversation record
StoredConversation(c) ==
    [c EXCEPT !.createdAt = Iso(c.createdAt), !.updatedAt = Iso(c.updatedAt)]

\* { ...c, createdAt: new Date(c.createdAt), updatedAt: new Date(c.updatedAt),
\*   messages: c.messages.map(...) }
RevivedConversation(c) ==
    [c EXCEPT !.createdAt = NewDate(c.createdAt), !.updatedAt = NewDate(c.updatedAt)]

\* the records the mount effect puts into the state: the initial [] stays
\* when nothing is stored and when the stored text makes the effect throw
LoadedConversations(saved) ==
    IF saved.k = "json" THEN [i \in 1..Len(saved.v) |-> RevivedConversation(saved.v[i])]
    ELSE <<>>

\* what 'zoxaa_conversations' holds when the hook mounts; the record is one
\* an earlier session saved at time 1, with the memory extracted for it
SavedConversations ==
    {NothingStored, CorruptStored, StoredList(<<>>),
     StoredList(<<StoredConversation([id |-> 1, messages |-> <<Message("user", <<"a">>)>>,
                                      memories |-> <<1>>, createdAt |-> 1, updatedAt |-> 1])>>)}

\* the hook after its mount: useState([]) and the effect that loads the
\* stored records; the render the caller holds is the first, which has none.
\* The memories a stored record names were made in earlier sessions, and
\* the clock is past the times of the stored records
ConversationsInit ==
    /\ \E savedConversations \in SavedConversations :
            conversations = LoadedConversations(savedConversations)
    /\ \A i \in 1..Len(conversations) : \A k \in 1..Len(conversations[i].memories) :
            conversations[i].memories[k] <= memoriesMade
    /\ conversationsHeld = <<>>
    /\ saveCalls = <<>>
    /\ saveReturned = 0
    /\ dateNow = 1 + Len(conversations)

\* the hook with no records
ConversationsAtRest ==
    /\ conversations = <<>>
    /\ conversationsHeld = <<>>
    /\ saveCalls = <<>>
    /\ saveReturned = 0
    /\ dateNow = 1

\* clearAllMemories
ClearAllMemories ==
    /\ memories' = <<>>
    /\ conversations' = <<>>
    /\ UNCHANGED <<saveCalls, saveReturned, dateNow, memoriesMade>>
    /\ UNCHANGED <<memoriesHeld, recalls, recalled, conversationsHeld, chatVars, relayVars,
                   planVars, recognitionVars, playbackVars, pageVars>>

ConversationsNext ==
    \/ \E messages \in SavedMessages, conversationId \in 0..MaxSaves :
            SaveConversation(messages, conversationId)
    \/ \E i \in 1..MaxPendingSaves : ExtractionResolves(i)
    \/ \E i \in 1..MaxPendingSaves : SaveConversationResumes(i)
    \/ \E memoryId \in 1..MaxMemoriesMade : DeleteMemory(memoryId)
    \/ ClearAllMemories
    \/ MemoryHookRenders


\* the requests in flight
InFlight == {i \in 1..Len(chatCalls) : chatCalls[i].stage = "fetch"}

\* the messages of every request in flight are one system message, then the
\* last 10 (or fewer) of the messages the call holds, in their order, then
\* the new user message once, as the last element; the retrieved memories
\* are in the text of the system message and nowhere else
RequestOfTheMessagesHeld ==
    \A c \in InFlight :
        LET call == chatCalls[c]
            n == Len(call.messages)
            k == IF n < HistoryLength THEN n ELSE HistoryLength
        IN /\ Len(call.body) = k + 2
           /\ call.body[1].role = "system"
           /\ call.body[1].content = Persona \o MemoryContext(call.relevant).v
           /\ \A j \in 1..k :
                /\ call.body[1 + j].role = call.messages[n - k + j].role
                /\ call.body[1 + j].content = call.messages[n - k + j].content
           /\ call.body[k + 2] = Message("user", call.userMessage)
           /\ \A j \in 2..(k + 2) : call.body[j].role # "system"

\* the step is a sendMessage call that passed the guard
Accepted(userMessage) ==
    /\ SendMessage(userMessage)
    /\ Len(chatCalls') = Len(chatCalls) + 1

\* C14: the messages of every request sendMessage posts to /api/chat are one
\* system message, then the last 10 (or fewer) messages of the conversation
\* as it was before the new message, in their order, then the new user
\* message once, as the last element; the retrieved memories are in the text
\* of the system message and nowhere else.
C14_RequestIsSystemHistoryUser ==
    /\ []RequestOfTheMessagesHeld
    /\ [][\A userMessage \in UserMessages :
            Accepted(userMessage) => chatCalls'[Len(chatCalls')].messages = chatMessages]_vars

\* a is b with some elements left out
RECURSIVE IsSubsequence(_, _)
IsSubsequence(a, b) ==
    IF Len(a) = 0 THEN TRUE
    ELSE IF Len(b) = 0 THEN FALSE
    ELSE IF Head(a) = Head(b) THEN IsSubsequence(Tail(a), Tail(b))
    ELSE IsSubsequence(a, Tail(b))

IsPrefix(a, b) == Len(a) <= Len(b) /\ SubSeq(b, 1, Len(a)) = a

\* the chat hook's list grows at its end, or is reset by clearConversation
ChatGrows == IsPrefix(chatMessages, chatMessages') \/ chatMessages' = <<WelcomeBack>>

\* every record that stays keeps its messages, in their order
RecordsKeepMessages ==
    \A i \in 1..Len(conversations) : \A j \in 1..Len(conversations') :
        conversations[i].id = conversations'[j].id =>
            IsSubsequence(conversations[i].messages, conversations'[j].messages)

\* C17: the message list of the chat hook is append-only, reset by
\* clearConversation alone, and saveConversation with the id of a stored
\* record neither drops nor reorders the messages stored in it.
C17_MessagesAppendOnly == [][ChatGrows /\ RecordsKeepMessages]_vars

\* the chat hook's half of C17
ChatMessagesAppendOnly == [][ChatGrows]_vars

(***************************************************************************)
(* Voice call page (VoiceChat.tsx)                                          *)
(*                                                                         *)
(* The page starts and ends the call, and sends what the voice hook has    *)
(* recognised to sendMessage.  An effect runs with the state change that   *)
(* triggers it.                                                            *)
(***************************************************************************)

\* bound: sendMessage calls made with one transcript
MaxSubmissions == 2

\* bound: startCall calls suspended at an await
MaxCalls == 2

\* what the hook recognises: an interim result and the result that follows
Transcripts == {"hello", "hello world"}

PageInit ==
    /\ callActive = FALSE
    /\ callTimer = FALSE
    /\ callStages = <<>>
    /\ callReport = "none"
    /\ isProcessing = FALSE
    /\ pageTranscript = ""
    /\ autoSendTimer = FALSE
    /\ voiceInputs = <<>>
    /\ submissions = 0

\* the auto-send effect: a timeout is pending after a render with a
\* transcript that is not blank and isProcessing false; the cleanup of the
\* render before has cleared the earlier one
AutoSendEffect(transcript, processing) == transcript # "" /\ ~processing

\* startCall, to its first await, from the button the page shows while no
\* call is active; the call duration effect starts the interval
StartCall ==
    /\ ~callActive
    /\ Len(callStages) < MaxCalls
    /\ callActive' = TRUE
    /\ callTimer' = TRUE
    /\ callStages' = Append(callStages, "listening")
    /\ UNCHANGED <<callReport, isProcessing, pageTranscript, autoSendTimer, voiceInputs,
                   submissions, exceptPage>>

\* the catch block of startCall
StartCallFailed(i) ==
    /\ callStages' = Without(callStages, i)
    /\ callReport' = "failed"
    /\ UNCHANGED <<callActive, callTimer>>

\* startCall, from the end of startRealTimeListening to the next await
ListeningSettles(i) ==
    /\ i \in 1..Len(callStages)
    /\ callStages[i] = "listening"
    /\ \E outcome \in {"ok", "throws"} :
        IF outcome = "ok"
        THEN /\ callStages' = [callStages EXCEPT ![i] = "welcome"]
             /\ UNCHANGED <<callActive, callTimer, callReport>>
        ELSE StartCallFailed(i)
    /\ UNCHANGED <<isProcessing, pageTranscript, autoSendTimer, voiceInputs, submissions,
                   exceptPage>>

\* startCall, from the end of speakWithEmotion(welcomeMessage) to its end
WelcomeSettles(i) ==
    /\ i \in 1..Len(callStages)
    /\ callStages[i] = "welcome"
    /\ \E outcome \in {"ok", "throws"} :
        IF outcome = "ok"
        THEN /\ callStages' = Without(callStages, i)
             /\ callReport' = "started"
             /\ UNCHANGED <<callActive, callTimer>>
        ELSE StartCallFailed(i)
    /\ UNCHANGED <<isProcessing, pageTranscript, autoSendTimer, voiceInputs, submissions,
                   exceptPage>>

\* endCall, from the button the page shows while a call is active:
\* stopRealTimeListening clears the transcript, the call duration effect
\* clears the interval
EndCall ==
    /\ callActive
    /\ callActive' = FALSE
    /\ callTimer' = FALSE
    /\ callReport' = "ended"
    /\ pageTranscript' = ""
    /\ autoSendTimer' = FALSE
    /\ submissions' = 0
    /\ UNCHANGED <<callStages, isProcessing, voiceInputs, exceptPage>>

\* the hook's onresult gives the page another transcript: the timeout of
\* the one before is cleared, the effect runs on the new one
TranscriptArrives(transcript) ==
    /\ transcript # pageTranscript
    /\ pageTranscript' = transcript
    /\ submissions' = 0
    /\ autoSendTimer' = AutoSendEffect(transcript, isProcessing)
    /\ UNCHANGED <<callActive, callTimer, callStages, callReport, isProcessing, voiceInputs,
                   exceptPage>>

\* the timeout of the auto-send effect: handleVoiceInput(currentTranscript),
\* of a render with isProcessing false, to its await of sendMessage
HandleVoiceInput ==
    /\ autoSendTimer
    /\ submissions < MaxSubmissions
    /\ isProcessing' = TRUE
    /\ voiceInputs' = Append(voiceInputs, "send")
    /\ submissions' = submissions + 1
    /\ autoSendTimer' = AutoSendEffect(pageTranscript, TRUE)
    /\ UNCHANGED <<callActive, callTimer, callStages, callReport, pageTranscript, exceptPage>>

\* the catch and finally blocks of handleVoiceInput
VoiceInputFailed(i) ==
    /\ voiceInputs' = Without(voiceInputs, i)
    /\ isProcessing' = FALSE
    /\ pageTranscript' = pageTranscript
    /\ submissions' = submissions
    /\ autoSendTimer' = AutoSendEffect(pageTranscript, FALSE)

\* handleVoiceInput, from the end of sendMessage to the await of
\* speakWithEmotion
SendSettles(i) ==
    /\ i \in 1..Len(voiceInputs)
    /\ voiceInputs[i] = "send"
    /\ \E outcome \in {"ok", "throws"} :
        IF outcome = "ok"
        THEN /\ voiceInputs' = [voiceInputs EXCEPT ![i] = "speak"]
             /\ UNCHANGED <<isProcessing, pageTranscript, autoSendTimer, submissions>>
        ELSE VoiceInputFailed(i)
    /\ UNCHANGED <<callActive, callTimer, callStages, callReport, exceptPage>>

\* handleVoiceInput, from the end of speakWithEmotion(response) to its end:
\* clearTranscript, finally setIsProcessing(false)
SpeakSettles(i) ==
    /\ i \in 1..Len(voiceInputs)
    /\ voiceInputs[i] = "speak"
    /\ \E outcome \in {"ok", "throws"} :
        IF outcome = "ok"
        THEN /\ voiceInputs' = Without(voiceInputs, i)
             /\ isProcessing' = FALSE
             /\ pageTranscript' = ""
             /\ submissions' = 0
             /\ autoSendTimer' = AutoSendEffect("", FALSE)
        ELSE VoiceInputFailed(i)
    /\ UNCHANGED <<callActive, callTimer, callStages, callReport, exceptPage>>

VoiceChatNext ==
    \/ StartCall
    \/ \E i \in 1..MaxCalls : ListeningSettles(i)
    \/ \E i \in 1..MaxCalls : WelcomeSettles(i)
    \/ EndCall
    \/ \E transcript \in Transcripts : TranscriptArrives(transcript)
    \/ HandleVoiceInput
    \/ \E i \in 1..MaxSubmissions : SendSettles(i)
    \/ \E i \in 1..MaxSubmissions : SpeakSettles(i)

\* C24: each recognised transcript is submitted to sendMessage at most once:
\* at most one handleVoiceInput call is in progress at any time, and a
\* transcript whose processing has ended, well or not, is not submitted again
\* (submissions counts the sendMessage calls made with the transcript the
\* page holds, from 0 for each transcript that arrives).
C24_TranscriptSubmittedOnce == submissions <= 1 /\ Len(voiceInputs) <= 1

\* C27: after startCall has reported that starting the recognition or
\* speaking the welcome message failed, callActive is false and the call
\* timer is not running.
C27_FailedCallNotActive == callReport = "failed" => (~callActive /\ ~callTimer)

(***************************************************************************)
(* Specifications: one per component, the other components at rest         *)
(***************************************************************************)

\* the relay with no request in hand and its key set
RelayAtRest == RelayIdle /\ keyConfigured = TRUE

InitRelay == RelayInit /\ PlansAtRest /\ MemoryAtRest /\ ConversationsAtRest /\ RecognitionInit /\ PlaybackInit /\ ChatInit /\ PageInit

InitCompletion == RelayAtRest /\ PlansInit /\ MemoryAtRest /\ ConversationsAtRest /\ RecognitionInit /\ PlaybackInit /\ ChatInit /\ PageInit

InitMemory == RelayAtRest /\ PlansAtRest /\ MemoryInit /\ ConversationsAtRest /\ RecognitionInit /\ PlaybackInit /\ ChatInit /\ PageInit

InitRecognition == RelayAtRest /\ PlansAtRest /\ MemoryAtRest /\ ConversationsAtRest /\ RecognitionInit /\ PlaybackInit /\ ChatInit /\ PageInit

InitPlayback == RelayAtRest /\ PlansAtRest /\ MemoryAtRest /\ ConversationsAtRest /\ RecognitionInit /\ PlaybackInit /\ ChatInit /\ PageInit

InitChat == RelayAtRest /\ PlansAtRest /\ MemoryAtRest /\ ConversationsAtRest /\ RecognitionInit /\ PlaybackInit /\ ChatInit /\ PageInit

InitConversations == RelayAtRest /\ PlansAtRest /\ MemoryInit /\ ConversationsInit /\ RecognitionInit /\ PlaybackInit /\ ChatInit /\ PageInit

InitVoiceChat == RelayAtRest /\ PlansAtRest /\ MemoryAtRest /\ ConversationsAtRest /\ RecognitionInit /\ PlaybackInit /\ ChatInit /\ PageInit

InitPlans == RelayAtRest /\ PlansInit /\ MemoryAtRest /\ ConversationsAtRest /\ RecognitionInit /\ PlaybackInit /\ ChatInit /\ PageInit

SpecRelay == InitRelay /\ [][RelayNext]_vars

SpecCompletion == InitCompletion /\ [][CompletionNext]_vars

SpecMemory == InitMemory /\ [][MemoryNext]_vars

SpecRecognition == InitRecognition /\ [][RecognitionNext]_vars

SpecPlayback == InitPlayback /\ [][PlaybackNext]_vars

SpecChat == InitChat /\ [][ChatNext]_vars

SpecVoiceChat == InitVoiceChat /\ [][VoiceChatNext]_vars

SpecConversations == InitConversations /\ [][ConversationsNext]_vars

SpecPlans == InitPlans /\ [][PlansNext]_vars

\* C21: isThinking is true in every state in which an accepted sendMessage
\* call is still pending.
C21_ThinkingWhilePending == Len(chatCalls) > 0 => isThinking

\* while a call stays pending, no step but a call of the setter turns
\* isThinking off
PendingCallsKeepThinking ==
    [][(/\ isThinking
        /\ Len(chatCalls') > 0
        /\ ~\E value \in BOOLEAN : SetIsThinking(value)) => isThinking']_vars

\* the text is empty or of whitespace only
Blank(text) == \A i \in 1..Len(text) : text[i] = " "

\* C30: sendMessage called with an empty or whitespace-only message, or
\* while no user is signed in, returns the empty string and changes nothing:
\* no message is appended, isThinking is not set, and no memory-retrieval,
\* relay or persistence request is issued.
C30_RejectedCallChangesNothing ==
    [][\A userMessage \in UserMessages :
        (SendMessage(userMessage) /\ (Blank(userMessage) \/ ~chatUser)) =>
            /\ chatReturned' = Ended("rejected", Returned(<<>>))
            /\ chatMessages' = chatMessages
            /\ isThinking' = isThinking
            /\ chatCalls' = chatCalls
            /\ supabase' = supabase]_vars

\* a call with a blank message, or on the sendMessage of a render without a
\* user, changes nothing
RejectedByTheRenderHeld ==
    [][\A userMessage \in UserMessages :
        (SendMessage(userMessage) /\ (Blank(userMessage) \/ ~chatHeld.user)) =>
            /\ chatReturned' = Ended("rejected", Returned(<<>>))
            /\ chatMessages' = chatMessages
            /\ isThinking' = isThinking
            /\ chatCalls' = chatCalls
            /\ supabase' = supabase]_vars

\* the step is the end of call i in the catch block, after its request to
\* /api/chat failed or was answered with a status that is not ok
RelayFails(i) ==
    /\ RelayAnswers(i)
    /\ Len(chatCalls') < Len(chatCalls)

\* C25: when a sendMessage call fails after its user message was accepted
\* and its memories retrieved (the relay request failed or was answered with
\* a non-OK status), the message list ends with the user message followed by
\* exactly one assistant error message, nothing is persisted, isThinking is
\* false, and the error is thrown again to the caller.
C25_RelayFailureHandled ==
    [][\A i \in 1..MaxInFlight : RelayFails(i) =>
        LET userMsg == Message("user", chatCalls[i].userMessage)
            n == Len(chatMessages')
        IN /\ n >= 2
           /\ chatMessages'[n - 1] = userMsg
           /\ chatMessages'[n] = ErrorMessage
           /\ chatMessages' = Append(chatMessages, ErrorMessage)
           /\ supabase' = supabase
           /\ ~isThinking'
           /\ chatReturned' \in {Ended("failed", ChatApiError), Ended("failed", FetchError)}]_vars

\* a call whose relay request fails appends one error message to the list
\* as it is then, persists nothing, resets isThinking and throws the error
\* again
RelayFailureAppendsError ==
    [][\A i \in 1..MaxInFlight : RelayFails(i) =>
        /\ chatMessages' = Append(chatMessages, ErrorMessage)
        /\ supabase' = supabase
        /\ ~isThinking'
        /\ chatReturned' \in {Ended("failed", ChatApiError), Ended("failed", FetchError)}]_vars

\* the step is the start of a call, which awaits its memories
Starts ==
    /\ Len(chatCalls') = Len(chatCalls) + 1
    /\ SubSeq(chatCalls', 1, Len(chatCalls)) = chatCalls

\* the step takes call i from one await to the next, and leaves the other
\* calls where they are
Moves(i, from, to) ==
    /\ i \in 1..Len(chatCalls)
    /\ Len(chatCalls') = Len(chatCalls)
    /\ chatCalls[i].stage = from
    /\ chatCalls'[i].stage = to
    /\ chatCalls'[i].userMessage = chatCalls[i].userMessage
    /\ \A j \in 1..Len(chatCalls) : j # i => chatCalls'[j] = chatCalls[j]

\* the step is the end of call i, which was at this await
Ends(i, from) ==
    /\ i \in 1..Len(chatCalls)
    /\ chatCalls[i].stage = from
    /\ chatCalls' = Without(chatCalls, i)

\* the row of the conversations table that call i writes
RowOf(call) ==
    ConversationRow(<<Message("user", call.userMessage), Message("assistant", call.response)>>,
                    call.userMessage)

\* C22: within one sendMessage call the user message is appended, then the
\* memories are retrieved, then the request to the relay is issued, then the
\* assistant response is appended, and only then the conversation row and,
\* after it, the memory row are written; a call whose relay request fails
\* writes nothing, and a failed write changes neither the response the call
\* returns nor the message list.
C22_StepsInOrder ==
    [][/\ chatCalls' # chatCalls =>
            \/ Starts
            \/ \E i \in 1..MaxInFlight :
                \/ Moves(i, "memories", "fetch") \/ Ends(i, "memories")
                \/ Moves(i, "fetch", "save") \/ Ends(i, "fetch")
                \/ Moves(i, "save", "saveMemory") \/ Ends(i, "save")
                \/ Ends(i, "saveMemory")
       /\ Starts =>
            LET call == chatCalls'[Len(chatCalls')]
            IN /\ call.stage = "memories"
               /\ chatMessages' = Append(chatMessages, Message("user", call.userMessage))
               /\ supabase' = supabase
       /\ \A i \in 1..MaxInFlight :
            /\ Moves(i, "memories", "fetch") =>
                /\ chatCalls'[i].body[Len(chatCalls'[i].body)]
                        = Message("user", chatCalls[i].userMessage)
                /\ chatMessages' = chatMessages
                /\ supabase' = supabase
            /\ Moves(i, "fetch", "save") =>
                /\ chatCalls'[i].body = chatCalls[i].body
                /\ chatMessages' = Append(chatMessages, Message("assistant", chatCalls'[i].response))
                /\ supabase' = supabase
            /\ (Ends(i, "memories") \/ Ends(i, "fetch")) =>
                /\ supabase' = supabase
                /\ chatReturned'.how = "failed"
            /\ Moves(i, "save", "saveMemory") =>
                /\ chatCalls'[i].response = chatCalls[i].response
                /\ supabase' = Append(supabase, RowOf(chatCalls[i]))
                /\ chatMessages' = chatMessages
            /\ Ends(i, "save") =>
                /\ supabase' = supabase \/ supabase' = Append(supabase, RowOf(chatCalls[i]))
                /\ chatMessages' = chatMessages
                /\ chatReturned' = Ended("answered", Returned(chatCalls[i].response))
            /\ Ends(i, "saveMemory") =>
                /\ \/ supabase' = supabase
                   \/ supabase' = Append(supabase, MemoryRow(chatCalls[i].userMessage))
                /\ \E k \in 1..Len(supabase) : supabase[k] = RowOf(chatCalls[i])
                /\ chatMessages' = chatMessages
                /\ chatReturned' = Ended("answered", Returned(chatCalls[i].response))
       /\ supabase' # supabase =>
            \E i \in 1..MaxInFlight :
                Moves(i, "save", "saveMemory") \/ Ends(i, "save") \/ Ends(i, "saveMemory")]_vars

\* a call has ended with its conversation row and its memory row written,
\* after the two messages, while a call made after it still awaits its
\* request
C22_ConversationAndMemoryWritten ==
    /\ Len(chatMessages) = 4
    /\ chatMessages[1] = Welcome
    /\ chatMessages[2] = Message("user", LongMessage)
    /\ chatMessages[3] = Message("user", <<"a">>)
    /\ chatMessages[4] = Message("assistant", <<"r">>)
    /\ Len(supabase) = 2
    /\ supabase[1].table = "conversations"
    /\ supabase[2] = MemoryRow(LongMessage)
    /\ chatReturned = Ended("answered", Returned(<<"r">>))
    /\ Len(chatCalls) = 1
    /\ chatCalls[1].userMessage = <<"a">>
    /\ chatCalls[1].stage = "fetch"

\* C26: saveConversation returns the id of a conversation that is in the
\* conversations state after the call: without a conversationId a new record
\* was appended, with a conversationId the record with that id holds the
\* passed messages and has kept its createdAt.
C26_ReturnedIdIsStored ==
    [][\A i \in 1..MaxPendingSaves : SaveConversationResumes(i) =>
        \E j \in 1..Len(conversations') :
            /\ conversations'[j].id = saveReturned'
            /\ conversations'[j].messages = saveCalls[i].messages
            /\ saveCalls[i].conversationId # 0 =>
                /\ saveReturned' = saveCalls[i].conversationId
                /\ saveCalls[i].conversationId \in Ids(conversations)
                /\ conversations'[j].createdAt =
                        Find(conversations, saveCalls[i].conversationId).createdAt
            /\ saveCalls[i].conversationId = 0 =>
                Len(conversations') = Len(conversations) + 1]_vars

====
